---- MODULE Spec2Model ----
(***************************************************************************)
(* A model of the milter protocol core of rspamd                           *)
(* (src/libserver/milter.c): the resumable frame parser, the command       *)
(* dispatcher, the reply builder, the read/write driver and the reference  *)
(* counted session.                                                        *)
(*                                                                         *)
(* The C code is sequential inside one event-handler invocation, so each   *)
(* C function is an operator from a "world" record (all the fields of the  *)
(* session, of its private part, of the parser, ...) to the world after    *)
(* the call.  An action of the state machine is one whole invocation of a  *)
(* handler or of an API function; its nondeterministic inputs (the result  *)
(* of read(2)/write(2), what the host does inside a callback, the value of *)
(* bytes that were never written) are drawn with \E and handed down in the *)
(* record ch.                                                              *)
(*                                                                         *)
(* Bytes are integers 0..255.  Offsets are 0-based as in C; mem[i+1] is    *)
(* the byte at offset i of parser.buf->str.                                *)
(***************************************************************************)
EXTENDS Integers, Sequences, FiniteSets, TLC

VARIABLES
    session,  \* struct rspamd_milter_session: the envelope
    priv,     \* struct rspamd_milter_private: state, out_chain, event, flags
    parser,   \* priv->parser without its buffer
    buf,      \* priv->parser.buf: the memory, len (allocated = Len(mem))
    sock,     \* the socket: bytes the MTA still has to deliver, bytes written
    ref,      \* session->ref.refcount, and whether the session was freed
    host,     \* the host program: references it holds, actions it may send
    obs       \* history: what was dispatched, enqueued, called

vars == <<session, priv, parser, buf, sock, ref, host, obs>>

-----------------------------------------------------------------------------
(* Bounds of the model *)

\* RSPAMD_MILTER_MESSAGE_CHUNK, scaled down from 65536 so that a frame of
\* 2 * CHUNK + 1 bytes and a buffer of CHUNK + 5 bytes fit the model.
RSPAMD_MILTER_MESSAGE_CHUNK == 24
\* Frames the MTA sends on one connection, in any order (the longer
\* conversations are those of Scenarios).
MaxFrames == 1
\* Host callbacks in one handler invocation whose behaviour is chosen freely
\* (further callbacks of the same invocation do nothing).
MaxCallbacks == 1
\* write(2) calls of one handler invocation whose result is chosen freely
\* (further calls of the same invocation write the whole buffer).
MaxWrites == 2
\* The bytes a short write(2) takes, and the most bytes a write(2) takes.
ShortWrite == 12
BigWrite == 32
\* rspamd_milter_send_action calls the host makes.
MaxHostActions == 1
\* Handler invocations that are followed on a session already destroyed.
MaxFreedRuns == 1
\* References the host takes with rspamd_milter_session_ref.
MaxHostRefs == 1

-----------------------------------------------------------------------------
(* Wire constants (milter.h, milter_internal.h) *)

RSPAMD_MILTER_CMD_ABORT == 65
RSPAMD_MILTER_CMD_BODY == 66
RSPAMD_MILTER_CMD_CONNECT == 67
RSPAMD_MILTER_CMD_MACRO == 68
RSPAMD_MILTER_CMD_BODYEOB == 69
RSPAMD_MILTER_CMD_HELO == 72
RSPAMD_MILTER_CMD_QUIT_NC == 75
RSPAMD_MILTER_CMD_HEADER == 76
RSPAMD_MILTER_CMD_MAIL == 77
RSPAMD_MILTER_CMD_EOH == 78
RSPAMD_MILTER_CMD_OPTNEG == 79
RSPAMD_MILTER_CMD_QUIT == 81
RSPAMD_MILTER_CMD_RCPT == 82
RSPAMD_MILTER_CMD_DATA == 84
RSPAMD_MILTER_CMD_UNKNOWN == 85

RSPAMD_MILTER_ADDRCPT == 43
RSPAMD_MILTER_DELRCPT == 45
RSPAMD_MILTER_ACCEPT == 97
RSPAMD_MILTER_CONTINUE == 99
RSPAMD_MILTER_DISCARD == 100
RSPAMD_MILTER_CHGFROM == 101
RSPAMD_MILTER_ADDHEADER == 104
RSPAMD_MILTER_INSHEADER == 105
RSPAMD_MILTER_CHGHEADER == 109
RSPAMD_MILTER_PROGRESS == 112
RSPAMD_MILTER_REJECT == 114
RSPAMD_MILTER_TEMPFAIL == 116
RSPAMD_MILTER_REPLYCODE == 121
RSPAMD_MILTER_OPTNEG == 79

RSPAMD_MILTER_CONN_UNKNOWN == 85
RSPAMD_MILTER_CONN_UNIX == 83
RSPAMD_MILTER_CONN_INET == 52
RSPAMD_MILTER_CONN_INET6 == 54

RSPAMD_MILTER_PROTO_VER == 2
RSPAMD_MILTER_ACTIONS_MASK == 63
RSPAMD_MILTER_FLAG_NOREPLY_MASK == 1047808

-----------------------------------------------------------------------------
(* Bytes and sequences *)

Min(a, b) == IF a < b THEN a ELSE b
Max(a, b) == IF a < b THEN b ELSE a

\* Every byte of the model is below 128, so that a 32-bit quantity read from
\* the wire stays below 2^31 and needs no wrap-around.
\* htonl + memcpy: the four bytes of a guint32, most significant first (a
\* negative gint passed as guint32 is its two's complement).
BE32(n) ==
    IF n >= 0
    THEN << (n \div 16777216) % 256, (n \div 65536) % 256,
            (n \div 256) % 256, n % 256 >>
    ELSE << 255 - ((((-n) - 1) \div 16777216) % 256),
            255 - ((((-n) - 1) \div 65536) % 256),
            255 - ((((-n) - 1) \div 256) % 256),
            255 - (((-n) - 1) % 256) >>

\* ntohl of four bytes.
FromBE32(b) == b[1] * 16777216 + b[2] * 65536 + b[3] * 256 + b[4]

\* a | b on guint32.
RECURSIVE BitOr(_, _)
BitOr(a, b) ==
    IF a = 0 THEN b
    ELSE IF b = 0 THEN a
    ELSE 2 * BitOr(a \div 2, b \div 2) + Max(a % 2, b % 2)

\* g_ascii_tolower of one byte, and of a string (case-insensitive keys).
Lower(b) == IF b >= 65 /\ b <= 90 THEN b + 32 ELSE b
LowerSeq(s) == [i \in 1..Len(s) |-> Lower(s[i])]

\* A C string in the model: "abc" is <<97, 98, 99>>.
NUL == 0
CRLF == <<13, 10>>

RECURSIVE Flatten(_)
Flatten(ss) == IF ss = <<>> THEN <<>> ELSE Head(ss) \o Flatten(Tail(ss))

IsPrefix(s, t) == Len(s) <= Len(t) /\ SubSeq(t, 1, Len(s)) = s

-----------------------------------------------------------------------------
(* The world: every field an operator of the core can read or write *)

World ==
    [session |-> session, priv |-> priv, parser |-> parser, buf |-> buf,
     sock |-> sock, ref |-> ref, host |-> host, obs |-> obs]

\* One entry of the trace of the current handler invocation.
Log(w, t) == [w EXCEPT !.obs.log = Append(@, t)]

\* A session that holds no peer address (session->addr == NULL).
NoAddr == [af |-> "NULL", ip |-> <<>>, port |-> 0]

\* An empty GHashTable.
EmptyTable == [k \in {} |-> 0]
TableGet(t, k) == IF k \in DOMAIN t THEN t[k] ELSE 0
\* An insertion that keeps the value of a key already present.
TablePutNew(t, k, v) ==
    [x \in (DOMAIN t) \cup {k} |-> IF x \in DOMAIN t THEN t[x] ELSE v]
TablePut(t, k, v) == [x \in (DOMAIN t) \cup {k} |-> IF x = k THEN v ELSE t[x]]

\* Touching the session: when it was already destroyed this is a use of
\* freed memory.  The build either aborts there (ch.crash) or goes on with
\* the values the freed memory still holds.
Touch(w, ch) ==
    IF w.ref.freed
    THEN [Log(w, "uaf") EXCEPT !.obs.uaf = TRUE, !.ref.crashed = ch.crash]
    ELSE w

-----------------------------------------------------------------------------
(* rspamd_milter_plan_io: event_del, event_set, event_add *)

EV_READ == "R"
EV_WRITE == "W"

rspamd_milter_plan_io(w, what) ==
    [Log(w, "plan") EXCEPT !.priv.ev = what]

-----------------------------------------------------------------------------
(* rspamd_milter_session_reset *)

\* Variants of the reset masks, used to see that the properties of ABORT and
\* QUIT_NC depend on them.
RESET_ABORT_WITH_ADDR == {"COMMON", "ADDR"}
RESET_QUIT_NC_WITHOUT_MACRO == {"COMMON", "ADDR"}

RSPAMD_MILTER_RESET_ALL == {"COMMON", "IO", "ADDR", "MACRO"}
RSPAMD_MILTER_RESET_QUIT_NC == {"COMMON", "ADDR", "MACRO"}
RSPAMD_MILTER_RESET_ABORT == {"COMMON"}

rspamd_milter_session_reset(w, how) ==
    LET w1 == IF "IO" \in how
              THEN [w EXCEPT !.priv.out_chain = <<>>, !.buf.len = 0]
              ELSE w
        w2 == IF "COMMON" \in how
              THEN [w1 EXCEPT !.session.message = <<>>,
                              !.session.rcpts = <<>>,
                              !.session.from = <<>>,
                              !.session.helo = <<>>,
                              !.session.hostname = <<>>,
                              !.priv.headers = EmptyTable]
              ELSE w1
        w3 == IF "ADDR" \in how
              THEN [w2 EXCEPT !.session.addr = NoAddr]
              ELSE w2
    IN  IF "MACRO" \in how
        THEN [w3 EXCEPT !.session.macros = EmptyTable]
        ELSE w3

-----------------------------------------------------------------------------
(* rspamd_milter_session_dtor and the reference count (ref.h) *)

rspamd_milter_session_dtor(w) ==
    LET w1 == Log(w, "dtor")
        w2 == [w1 EXCEPT !.priv.ev = {}]
        w3 == rspamd_milter_session_reset(w2, RSPAMD_MILTER_RESET_ALL)
    IN  [w3 EXCEPT !.ref.freed = TRUE,
                   \* the freed outbuf nodes still hold what they held
                   !.priv.stale = w.priv.out_chain \o w.priv.stale,
                   !.obs.dtor_calls = @ + 1,
                   !.obs.dtor_in_cb = @ \/ w.obs.in_cb,
                   !.obs.dtor_refcount = w.ref.refcount]

REF_RETAIN(w) ==
    [Log(w, "retain") EXCEPT !.ref.refcount = @ + 1]

REF_RELEASE(w) ==
    LET w1 == [Log(w, "release") EXCEPT !.ref.refcount = @ - 1]
    IN  IF w1.ref.refcount = 0 THEN rspamd_milter_session_dtor(w1) ELSE w1

-----------------------------------------------------------------------------
(* rspamd_milter_send_action: SET_COMMAND and the payload of each action *)

NoArgs == [idx |-> 0, name |-> <<>>, value |-> <<>>,
           ver |-> 0, actions |-> 0, protocol |-> 0]

\* The bytes memcpy'd after the command byte, or the fact that the action
\* is unknown (reply stays NULL).
ActionKnown(act) ==
    act \in {RSPAMD_MILTER_ACCEPT, RSPAMD_MILTER_CONTINUE,
             RSPAMD_MILTER_DISCARD, RSPAMD_MILTER_PROGRESS,
             RSPAMD_MILTER_REJECT, RSPAMD_MILTER_TEMPFAIL,
             RSPAMD_MILTER_ADDHEADER, RSPAMD_MILTER_CHGHEADER,
             RSPAMD_MILTER_INSHEADER, RSPAMD_MILTER_REPLYCODE,
             RSPAMD_MILTER_ADDRCPT, RSPAMD_MILTER_DELRCPT,
             RSPAMD_MILTER_CHGFROM, RSPAMD_MILTER_OPTNEG}

ActionPayload(act, a) ==
    IF act \in {RSPAMD_MILTER_ACCEPT, RSPAMD_MILTER_CONTINUE,
                RSPAMD_MILTER_DISCARD, RSPAMD_MILTER_PROGRESS,
                RSPAMD_MILTER_REJECT, RSPAMD_MILTER_TEMPFAIL}
    THEN <<>>
    ELSE IF act = RSPAMD_MILTER_ADDHEADER
    THEN a.name \o <<NUL>> \o a.value \o <<NUL>>
    ELSE IF act \in {RSPAMD_MILTER_CHGHEADER, RSPAMD_MILTER_INSHEADER}
    THEN BE32(a.idx) \o a.name \o <<NUL>> \o a.value \o <<NUL>>
    ELSE IF act \in {RSPAMD_MILTER_REPLYCODE, RSPAMD_MILTER_ADDRCPT,
                     RSPAMD_MILTER_DELRCPT, RSPAMD_MILTER_CHGFROM}
    THEN a.value \o <<NUL>>
    ELSE BE32(a.ver) \o BE32(a.actions) \o BE32(a.protocol)

\* A length field that forgets the command byte.
SET_COMMAND_without_cmd(cmd, payload) == BE32(Len(payload)) \o <<cmd>> \o payload

SET_COMMAND(cmd, payload) == BE32(Len(payload) + 1) \o <<cmd>> \o payload

\* A send_action that queues the frame and arms the event, but leaves
\* priv->state as it finds it.
send_action_keeps_state(w, act, a) ==
    IF ActionKnown(act)
    THEN LET reply == SET_COMMAND(act, ActionPayload(act, a))
             obuf == [id |-> Len(w.obs.enq) + 1, buf |-> reply, pos |-> 0]
             w1 == [w EXCEPT !.priv.out_chain = Append(@, obuf),
                             !.obs.enq = Append(@, reply),
                             !.obs.ret = TRUE]
         IN  rspamd_milter_plan_io(Log(w1, "enqueue"), {EV_WRITE})
    ELSE [w EXCEPT !.obs.ret = FALSE]

\* Returns the world; w.obs.ret is the gboolean result.
rspamd_milter_send_action(w, act, a) ==
    IF ActionKnown(act)
    THEN LET reply == SET_COMMAND(act, ActionPayload(act, a))
             obuf == [id |-> Len(w.obs.enq) + 1, buf |-> reply, pos |-> 0]
             w1 == [w EXCEPT !.priv.out_chain = Append(@, obuf),
                             !.obs.enq = Append(@, reply),
                             !.priv.state = "WRITE_REPLY",
                             !.obs.ret = TRUE]
         IN  rspamd_milter_plan_io(Log(w1, "enqueue"), {EV_WRITE})
    ELSE [w EXCEPT !.obs.ret = FALSE]

-----------------------------------------------------------------------------
(* The host's finish_cb and error_cb.  The core only knows that they are   *)
(* called with the session; inside, the host may drop a reference it holds *)
(* (rspamd_milter_session_unref), enqueue a reply, or do nothing.          *)

HostChoices == {"keep", "unref", "accept"}

HostCallback(w, kind, ch) ==
    LET n == w.obs.ncb + 1
        c == IF n <= Len(ch.cb) THEN ch.cb[n] ELSE "keep"
        w1 == [Log(w, kind) EXCEPT
                  !.obs.ncb = n, !.obs.in_cb = TRUE,
                  \* what the host is shown
                  !.obs.cb = [kind |-> kind, state |-> w.priv.state,
                              err |-> IF kind = "err_cb" THEN w.obs.err ELSE "",
                              refcount |-> w.ref.refcount]]
        w2 == IF c = "unref" /\ w1.host.refs > 0
              THEN REF_RELEASE([w1 EXCEPT !.host.refs = @ - 1])
              ELSE IF c = "accept" /\ ~w1.ref.freed
                      /\ w1.host.sends < MaxHostActions
              THEN [rspamd_milter_send_action(w1, RSPAMD_MILTER_ACCEPT, NoArgs)
                       EXCEPT !.host.sends = @ + 1]
              ELSE w1
    IN  [w2 EXCEPT !.obs.in_cb = FALSE]

\* g_error_new (rspamd_milter_quark (), code, ...): the error handed to the
\* host's error_cb.
g_error_new(w, code) == [w EXCEPT !.obs.err = code]

(* rspamd_milter_on_protocol_error *)
\* An error path that calls the host without holding the session.
on_protocol_error_unbracketed(w, ch) ==
    LET w1 == [Log(w, "proto_err") EXCEPT !.priv.state = "WANNA_DIE"]
    IN  HostCallback(w1, "err_cb", ch)

rspamd_milter_on_protocol_error(w, ch) ==
    LET w1 == [Log(w, "proto_err") EXCEPT !.priv.state = "WANNA_DIE"]
        w2 == REF_RETAIN(w1)
        w3 == HostCallback(w2, "err_cb", ch)
    IN  REF_RELEASE(w3)

-----------------------------------------------------------------------------
(* The parser buffer's memory *)

\* A byte of malloc'ed memory that was never written.
Uninit == -1

\* *(buf->str + off): a byte that was never written, or that lies past the
\* allocation, reads as some byte ch.junk.
ByteAt(w, ch, off) ==
    IF off >= 0 /\ off < Len(w.buf.mem) /\ w.buf.mem[off + 1] # Uninit
    THEN w.buf.mem[off + 1]
    ELSE ch.junk

\* The n bytes at offset off.
Bytes(w, ch, off, n) == [i \in 1..Max(n, 0) |-> ByteAt(w, ch, off + i - 1)]

\* memchr (str + from, '\0', n): the offset found, or -1 for NULL.
memchr(w, ch, from, n) ==
    LET hits == {k \in from..(from + n - 1) : ByteAt(w, ch, k) = NUL}
    IN  IF hits = {} THEN -1
        ELSE CHOOSE k \in hits : \A j \in hits : k <= j

\* The last offset memchr looked at (from - 1 when it looked at nothing).
memchr_last(w, ch, from, n) ==
    LET z == memchr(w, ch, from, n)
    IN  IF z = -1 THEN from + n - 1 ELSE z

\* rspamd_fstring_grow (fstring.c): at least needed_len bytes, at least
\* doubling; the old contents are kept, the new bytes are not initialised.
rspamd_fstring_grow(w, needed_len) ==
    LET old == Len(w.buf.mem)
        new == Max(2 * old, needed_len)
    IN  [w EXCEPT !.buf.mem = @ \o [i \in 1..(new - old) |-> Uninit]]

-----------------------------------------------------------------------------
(* External parsers (email_addr.c, addr.c) *)

\* rspamd_email_address_from_smtp: the address, or <<>> for NULL.
rspamd_email_address_from_smtp(tok) ==
    IF Len(tok) >= 2 /\ tok[1] = 60 /\ tok[Len(tok)] = 62 THEN tok ELSE <<>>

\* rspamd_parse_inet_address_ip: whether the text is an IP address.
rspamd_parse_inet_address_ip(txt) ==
    /\ txt # <<>>
    /\ \A i \in 1..Len(txt) : txt[i] \in (48..58) \cup {46, 91, 93}

-----------------------------------------------------------------------------
(* rspamd_milter_process_command, one operator per case of its switch.     *)
(* Offsets are those of the parser buffer; pos starts at parser.cmd_start  *)
(* and end is pos + parser.datalen.  w.obs.ret is the function's result;   *)
(* w.obs.rd records the highest offset the case read, relative to          *)
(* cmd_start (-1: none).                                                   *)

Ret(w, r) == [w EXCEPT !.obs.ret = r]
Rd(w, off) ==
    [w EXCEPT !.obs.rd.max = Max(@, off - w.parser.cmd_start)]

ProtocolError(w, ch) ==
    Ret(rspamd_milter_on_protocol_error(g_error_new(w, "EINVAL"), ch), FALSE)
TooBigError(w, ch) ==
    Ret(rspamd_milter_on_protocol_error(g_error_new(w, "E2BIG"), ch), FALSE)

cmd_start(w) == w.parser.cmd_start
cmd_end(w) == w.parser.cmd_start + w.parser.datalen

case_ABORT(w, ch) ==
    Ret(rspamd_milter_session_reset(w, RSPAMD_MILTER_RESET_ABORT), TRUE)

case_BODY(w, ch) ==
    LET data == Bytes(w, ch, cmd_start(w), w.parser.datalen)
        w1 == Rd(w, cmd_end(w) - 1)
    IN  Ret([w1 EXCEPT !.session.message = @ \o data], TRUE)

case_CONNECT(w, ch) ==
    LET pos == cmd_start(w)
        end == cmd_end(w)
        zero == memchr(w, ch, pos, w.parser.datalen)
        w0 == Rd(w, memchr_last(w, ch, pos, w.parser.datalen))
    IN  IF zero = -1 \/ zero > end - 2 + 1
        THEN ProtocolError(w0, ch)
        ELSE
        LET w1 == [w0 EXCEPT !.session.hostname = Bytes(w, ch, pos, zero - pos)]
            proto == ByteAt(w, ch, zero + 1)
            w2 == Rd(w1, zero + 1)
        IN  IF proto = RSPAMD_MILTER_CONN_UNKNOWN
            THEN Ret(w2, TRUE)
            ELSE
            LET port == ByteAt(w, ch, zero + 2) * 256 + ByteAt(w, ch, zero + 3)
                w3 == Rd(w2, zero + 3)
                ip == zero + 4
            IN  IF ip >= end
                THEN Ret(w3, TRUE)
                ELSE
                LET zero2 == memchr(w, ch, ip, end - ip)
                    w4 == Rd(w3, memchr_last(w, ch, ip, end - ip))
                    txt == Bytes(w, ch, ip, zero2 - ip)
                    v6 == IF Len(txt) > 6
                             /\ LowerSeq(SubSeq(txt, 1, 5)) = <<105, 112, 118, 54, 58>>
                          THEN IF txt[6] # 91
                               THEN <<91>> \o SubSeq(txt, 6, Len(txt)) \o <<93>>
                               ELSE SubSeq(txt, 6, Len(txt))
                          ELSE txt
                IN  IF zero2 = -1
                    THEN ProtocolError(w4, ch)
                    ELSE IF proto = RSPAMD_MILTER_CONN_UNIX
                    THEN Ret([w4 EXCEPT !.session.addr =
                                 [af |-> "UNIX", ip |-> txt, port |-> 0]], TRUE)
                    ELSE IF proto = RSPAMD_MILTER_CONN_INET
                    THEN IF ~rspamd_parse_inet_address_ip(txt)
                         THEN ProtocolError([w4 EXCEPT !.session.addr =
                                 [af |-> "INET", ip |-> <<>>, port |-> 0]], ch)
                         ELSE Ret([w4 EXCEPT !.session.addr =
                                 [af |-> "INET", ip |-> txt, port |-> port]], TRUE)
                    ELSE IF proto = RSPAMD_MILTER_CONN_INET6
                    THEN IF ~rspamd_parse_inet_address_ip(v6)
                         THEN ProtocolError([w4 EXCEPT !.session.addr =
                                 [af |-> "INET6", ip |-> <<>>, port |-> 0]], ch)
                         ELSE Ret([w4 EXCEPT !.session.addr =
                                 [af |-> "INET6", ip |-> v6, port |-> port]], TRUE)
                    ELSE ProtocolError(w4, ch)

\* "{mail_host}"
MailHostMacro == <<123, 109, 97, 105, 108, 95, 104, 111, 115, 116, 125>>

\* The while loop of the MACRO case: pos and cmdlen are its locals.
RECURSIVE macro_loop(_, _, _, _)
macro_loop(w, ch, pos, cmdlen) ==
    IF pos >= cmd_end(w)
    THEN Ret(w, TRUE)
    ELSE
    LET zero == memchr(w, ch, pos, cmdlen)
        w1 == Rd(w, memchr_last(w, ch, pos, cmdlen))
    IN  IF zero = -1
        THEN ProtocolError(w1, ch)
        ELSE
        LET zero_val == memchr(w, ch, zero + 1, cmdlen)
            w2 == Rd(w1, memchr_last(w, ch, zero + 1, cmdlen))
            name == Bytes(w, ch, pos, zero - pos)
            value == Bytes(w, ch, zero + 1, zero_val - zero - 1)
            w3 == [w2 EXCEPT !.session.macros = TablePut(@, LowerSeq(name), value)]
            w4 == IF name = MailHostMacro
                  THEN [w3 EXCEPT !.session.hostname = value]
                  ELSE w3
        IN  IF zero_val = -1
            \* end > NULL holds: a string of length NULL - zero - 1 is
            \* allocated and copied, which aborts the process.
            THEN Ret([Log(w2, "abort") EXCEPT !.ref.crashed = TRUE], FALSE)
            ELSE IF cmd_end(w) > zero_val
            THEN macro_loop(w4, ch, zero_val + 1, cmdlen - (zero_val - pos))
            ELSE ProtocolError(w2, ch)

case_MACRO(w, ch) == macro_loop(w, ch, cmd_start(w) + 1, w.parser.datalen)

\* A BODYEOB that resets the transaction before it tells the host.
case_BODYEOB_resets(w, ch) ==
    LET w1 == REF_RETAIN(
                 rspamd_milter_session_reset(w, RSPAMD_MILTER_RESET_ABORT))
        w2 == HostCallback(w1, "fin_cb", ch)
    IN  Ret(REF_RELEASE(w2), TRUE)

case_BODYEOB(w, ch) ==
    LET w1 == REF_RETAIN(w)
        w2 == HostCallback(w1, "fin_cb", ch)
    IN  Ret(REF_RELEASE(w2), TRUE)

case_HELO(w, ch) ==
    LET pos == cmd_start(w)
        end == cmd_end(w)
        cmdlen == w.parser.datalen
    IN  IF end > pos /\ ByteAt(w, ch, end - 1) = NUL
        THEN Ret([Rd(w, end - 1) EXCEPT
                    !.session.helo = Bytes(w, ch, pos, cmdlen - 1)], TRUE)
        ELSE IF end > pos
        THEN Ret([Rd(w, end - 1) EXCEPT
                    !.session.helo = Bytes(w, ch, pos, cmdlen)], TRUE)
        ELSE Ret(w, TRUE)

case_QUIT_NC(w, ch) ==
    Ret(rspamd_milter_session_reset(w, RSPAMD_MILTER_RESET_QUIT_NC), TRUE)

\* strlen (str + from): the offset of the terminating NUL, or -1 when the
\* scan runs off the mapped memory.
strlen_end(w, ch, from) ==
    memchr(w, ch, from, Max(Len(w.buf.mem) - from, 0) + 1)

case_HEADER(w, ch) ==
    LET pos == cmd_start(w)
        end == cmd_end(w)
        zero == memchr(w, ch, pos, w.parser.datalen)
        w0 == Rd(w, memchr_last(w, ch, pos, w.parser.datalen))
    IN  IF zero = -1
        THEN ProtocolError(w0, ch)
        ELSE IF end > zero /\ ByteAt(w, ch, end - 1) = NUL
        THEN
        LET name == Bytes(w, ch, pos, zero - pos)
            key == LowerSeq(name)
            num == TableGet(w.priv.headers, key) + 1
            w1 == [Rd(w0, end - 1) EXCEPT !.priv.headers = TablePut(@, key, num)]
            vlen == end - zero - 2
            \* "%*s" with a width of -1 prints up to the next NUL
            vend == IF vlen = -1 THEN strlen_end(w, ch, zero + 1) ELSE zero + 1 + vlen
            value == Bytes(w, ch, zero + 1, vend - zero - 1)
            w2 == Rd(w1, vend - (IF vlen = -1 THEN 0 ELSE 1))
        IN  IF vend = -1
            THEN Ret([Log(Rd(w1, Len(w.buf.mem)), "abort") EXCEPT
                         !.ref.crashed = TRUE], FALSE)
            ELSE Ret([w2 EXCEPT !.session.message =
                         @ \o name \o <<58, 32>> \o value \o CRLF], TRUE)
        ELSE ProtocolError(w0, ch)

case_MAIL(w, ch) ==
    LET pos == cmd_start(w)
        end == cmd_end(w)
        zero == memchr(w, ch, pos, end - pos)
        tok == IF zero # -1 /\ zero > pos
               THEN Bytes(w, ch, pos, zero - pos)
               ELSE Bytes(w, ch, pos, end - pos)
        addr == rspamd_email_address_from_smtp(tok)
    IN  IF pos < end
        THEN Ret([Rd(w, end - 1) EXCEPT
                    !.session.from = IF addr # <<>> THEN addr ELSE @], TRUE)
        ELSE Ret(w, TRUE)

case_EOH(w, ch) ==
    Ret([w EXCEPT !.session.message = @ \o CRLF], TRUE)

case_OPTNEG_echo_actions(w, ch) ==
    LET pos == cmd_start(w)
        version == FromBE32(Bytes(w, ch, pos, 4))
        actions == FromBE32(Bytes(w, ch, pos + 4, 4))
        w1 == Rd(w, pos + 11)
    IN  IF w.parser.datalen # 4 * 3
        THEN ProtocolError(w, ch)
        ELSE IF version < RSPAMD_MILTER_PROTO_VER
        THEN ProtocolError(w1, ch)
        ELSE rspamd_milter_send_action(w1, RSPAMD_MILTER_OPTNEG,
                [NoArgs EXCEPT !.ver = RSPAMD_MILTER_PROTO_VER,
                               !.actions = actions,
                               !.protocol = RSPAMD_MILTER_FLAG_NOREPLY_MASK])

case_OPTNEG(w, ch) ==
    LET pos == cmd_start(w)
        version == FromBE32(Bytes(w, ch, pos, 4))
        actions == FromBE32(Bytes(w, ch, pos + 4, 4))
        w1 == Rd(w, pos + 11)
    IN  IF w.parser.datalen # 4 * 3
        THEN ProtocolError(w, ch)
        ELSE IF version < RSPAMD_MILTER_PROTO_VER
        THEN ProtocolError(w1, ch)
        ELSE rspamd_milter_send_action(w1, RSPAMD_MILTER_OPTNEG,
                [NoArgs EXCEPT !.ver = RSPAMD_MILTER_PROTO_VER,
                               !.actions = BitOr(actions, RSPAMD_MILTER_ACTIONS_MASK),
                               !.protocol = RSPAMD_MILTER_FLAG_NOREPLY_MASK])

\* A QUIT whose empty-queue branch returns TRUE, like the other cases.
case_QUIT_goes_on(w, ch) ==
    IF w.priv.out_chain # <<>>
    THEN Ret([w EXCEPT !.priv.state = "WRITE_AND_DIE"], TRUE)
    ELSE LET w1 == REF_RETAIN([w EXCEPT !.priv.state = "WANNA_DIE"])
             w2 == HostCallback(w1, "fin_cb", ch)
         IN  Ret(REF_RELEASE(w2), TRUE)

case_QUIT(w, ch) ==
    IF w.priv.out_chain # <<>>
    THEN Ret([w EXCEPT !.priv.state = "WRITE_AND_DIE"], TRUE)
    ELSE LET w1 == REF_RETAIN([w EXCEPT !.priv.state = "WANNA_DIE"])
             w2 == HostCallback(w1, "fin_cb", ch)
         IN  Ret(REF_RELEASE(w2), FALSE)

\* The while loop of the RCPT case.
RECURSIVE rcpt_loop(_, _, _)
rcpt_loop(w, ch, pos) ==
    LET end == cmd_end(w)
        zero == memchr(w, ch, pos, end - pos)
        whole == zero # -1 /\ zero > pos
        tok == IF whole THEN Bytes(w, ch, pos, zero - pos)
               ELSE Bytes(w, ch, pos, end - pos)
        addr == rspamd_email_address_from_smtp(tok)
        w1 == IF addr # <<>>
              THEN [w EXCEPT !.session.rcpts = Append(@, addr)]
              ELSE w
    IN  IF pos >= end THEN Ret(w, TRUE)
        ELSE IF whole THEN rcpt_loop(Rd(w1, end - 1), ch, zero + 1)
        ELSE Ret(Rd(w1, end - 1), TRUE)

case_RCPT(w, ch) == rcpt_loop(w, ch, cmd_start(w))

case_DATA(w, ch) == Ret(w, TRUE)

\* What a command can change: the envelope, the header counts, the output
\* chain, the parser buffer, the connection state and the reference count.
Snap(w) ==
    [session |-> w.session, headers |-> w.priv.headers,
     out_chain |-> w.priv.out_chain, buf |-> w.buf, state |-> w.priv.state,
     refcount |-> w.ref.refcount]

\* History: the command as it is handed over, and what became of it.
command_begin(w, ch) ==
    [Log(w, "dispatch") EXCEPT
        !.obs.disp = Append(@,
            [cmd |-> w.parser.cur_cmd,
             payload |-> Bytes(w, ch, cmd_start(w), w.parser.datalen),
             state |-> w.priv.state,
             optneg |-> w.obs.optneg,
             ok |-> TRUE,
             kept |-> TRUE,
             before |-> Snap(w),
             after |-> Snap(w)]),
        !.obs.rd = [cmd |-> w.parser.cur_cmd, len |-> w.parser.datalen,
                    max |-> -1],
        !.obs.pre = [state |-> w.priv.state, session |-> w.session,
                     optneg |-> w.obs.optneg]]

command_end(w) ==
    [w EXCEPT !.obs.disp[Len(w.obs.disp)].ok = w.obs.ret,
              !.obs.disp[Len(w.obs.disp)].kept = (w.session = w.obs.pre.session),
              !.obs.disp[Len(w.obs.disp)].after = Snap(w),
              !.obs.optneg = @ \/ w.parser.cur_cmd = RSPAMD_MILTER_CMD_OPTNEG]

\* switch (priv->parser.cur_cmd)
command_switch(w, ch) ==
    LET c == w.parser.cur_cmd
    IN  IF c = RSPAMD_MILTER_CMD_ABORT THEN case_ABORT(w, ch)
        ELSE IF c = RSPAMD_MILTER_CMD_BODY THEN case_BODY(w, ch)
        ELSE IF c = RSPAMD_MILTER_CMD_CONNECT THEN case_CONNECT(w, ch)
        ELSE IF c = RSPAMD_MILTER_CMD_MACRO THEN case_MACRO(w, ch)
        ELSE IF c = RSPAMD_MILTER_CMD_BODYEOB THEN case_BODYEOB(w, ch)
        ELSE IF c = RSPAMD_MILTER_CMD_HELO THEN case_HELO(w, ch)
        ELSE IF c = RSPAMD_MILTER_CMD_QUIT_NC THEN case_QUIT_NC(w, ch)
        ELSE IF c = RSPAMD_MILTER_CMD_HEADER THEN case_HEADER(w, ch)
        ELSE IF c = RSPAMD_MILTER_CMD_MAIL THEN case_MAIL(w, ch)
        ELSE IF c = RSPAMD_MILTER_CMD_EOH THEN case_EOH(w, ch)
        ELSE IF c = RSPAMD_MILTER_CMD_OPTNEG THEN case_OPTNEG(w, ch)
        ELSE IF c = RSPAMD_MILTER_CMD_QUIT THEN case_QUIT(w, ch)
        ELSE IF c = RSPAMD_MILTER_CMD_RCPT THEN case_RCPT(w, ch)
        ELSE IF c = RSPAMD_MILTER_CMD_DATA THEN case_DATA(w, ch)
        ELSE Ret(w, TRUE)

rspamd_milter_process_command(w, ch) ==
    command_end(command_switch(command_begin(w, ch), ch))

-----------------------------------------------------------------------------
(* rspamd_milter_is_valid_cmd *)

rspamd_milter_is_valid_cmd(c) ==
    c \in {RSPAMD_MILTER_CMD_ABORT, RSPAMD_MILTER_CMD_BODY,
           RSPAMD_MILTER_CMD_CONNECT, RSPAMD_MILTER_CMD_MACRO,
           RSPAMD_MILTER_CMD_BODYEOB, RSPAMD_MILTER_CMD_HELO,
           RSPAMD_MILTER_CMD_QUIT_NC, RSPAMD_MILTER_CMD_HEADER,
           RSPAMD_MILTER_CMD_MAIL, RSPAMD_MILTER_CMD_EOH,
           RSPAMD_MILTER_CMD_OPTNEG, RSPAMD_MILTER_CMD_QUIT,
           RSPAMD_MILTER_CMD_RCPT, RSPAMD_MILTER_CMD_DATA,
           RSPAMD_MILTER_CMD_UNKNOWN}

-----------------------------------------------------------------------------
(* rspamd_milter_consume_input *)

\* The E2BIG bound of st_read_data.
MaxDataLen_loose == RSPAMD_MILTER_MESSAGE_CHUNK * 2 + 2
MaxDataLen == RSPAMD_MILTER_MESSAGE_CHUNK * 2

\* What follows a successful rspamd_milter_process_command in both places
\* that call it: the parser is reset for the next frame.
parser_next_frame(w) ==
    [w EXCEPT !.parser.state = "st_len_1",
              !.parser.cur_cmd = 0,
              !.parser.cmd_start = 0]

\* The end of the function: the buffer is rewound when it was consumed
\* entirely, and the event is re-armed.
consume_finish(w, ch, p, end) ==
    LET w1 == IF p = end
              THEN [w EXCEPT !.buf.len = 0, !.parser.pos = 0]
              ELSE w
    IN  IF w1.priv.out_chain # <<>>
        THEN Ret(rspamd_milter_plan_io(w1, {EV_READ, EV_WRITE}), TRUE)
        ELSE Ret(rspamd_milter_plan_io(w1, {EV_READ}), TRUE)

\* "Leftover", after rspamd_milter_process_command has returned: w is the
\* world it left.  The parser is touched again, whatever the command did to
\* the session.
leftover_reset(w, ch, p, end) ==
    IF w.ref.crashed THEN w
    ELSE consume_finish(parser_next_frame(w), ch, p, end)

leftover_after_command(w, ch, p, end) ==
    IF ~w.obs.ret \/ w.ref.crashed THEN Ret(w, FALSE)
    ELSE leftover_reset(Touch(w, ch), ch, p, end)

\* The code after the while loop ("Leftover"), reached with p = end.
consume_leftover(w, ch, p) ==
    IF w.parser.state = "st_read_data" /\ p + w.parser.datalen <= w.buf.len
    THEN leftover_after_command(rspamd_milter_process_command(w, ch),
                                ch, p, w.buf.len)
    ELSE consume_finish(w, ch, p, w.buf.len)

RECURSIVE consume_loop(_, _, _)

\* st_read_data, after rspamd_milter_process_command has returned: w is the
\* world it left.
loop_next_frame(w, ch, p) ==
    IF w.ref.crashed THEN w
    ELSE consume_loop(parser_next_frame(w), ch, p + w.parser.datalen)

loop_after_command(w, ch, p) ==
    IF ~w.obs.ret \/ w.ref.crashed THEN Ret(w, FALSE)
    ELSE loop_next_frame(Touch(w, ch), ch, p)

\* case st_read_cmd
loop_read_cmd(w, ch, p) ==
    IF w.parser.datalen < 1
    THEN ProtocolError(w, ch)
    ELSE consume_loop([w EXCEPT !.parser.datalen = @ - 1,
                                !.parser.cmd_start = p + 1], ch, p + 1)

\* case st_read_data
loop_read_data(w, ch, p) ==
    IF w.parser.datalen > MaxDataLen
    THEN TooBigError(w, ch)
    ELSE IF ~rspamd_milter_is_valid_cmd(w.parser.cur_cmd)
    THEN TooBigError(w, ch)
    ELSE IF Len(w.buf.mem) < w.parser.datalen
    THEN Ret(rspamd_milter_plan_io(
                rspamd_fstring_grow([w EXCEPT !.parser.pos = p],
                                    w.buf.len + w.parser.datalen),
                {EV_READ}), TRUE)
    ELSE IF p + w.parser.datalen <= w.buf.len
    THEN loop_after_command(rspamd_milter_process_command(w, ch), ch, p)
    ELSE Ret(rspamd_milter_plan_io([w EXCEPT !.parser.pos = p],
                                   {EV_READ}), TRUE)

\* The while (p < end) loop; p is the offset of the cursor in the buffer.
consume_loop(w, ch, p) ==
    LET b == ByteAt(w, ch, p)
        st == w.parser.state
    IN  IF p >= w.buf.len THEN consume_leftover(w, ch, p)
        ELSE IF st = "st_len_1"
        THEN consume_loop([w EXCEPT !.parser.datalen = b * 16777216,
                                    !.parser.state = "st_len_2"], ch, p + 1)
        ELSE IF st = "st_len_2"
        THEN consume_loop([w EXCEPT !.parser.datalen = @ + b * 65536,
                                    !.parser.state = "st_len_3"], ch, p + 1)
        ELSE IF st = "st_len_3"
        THEN consume_loop([w EXCEPT !.parser.datalen = @ + b * 256,
                                    !.parser.state = "st_len_4"], ch, p + 1)
        ELSE IF st = "st_len_4"
        THEN consume_loop([w EXCEPT !.parser.datalen = @ + b,
                                    !.parser.state = "st_read_cmd"], ch, p + 1)
        ELSE IF st = "st_read_cmd"
        THEN loop_read_cmd([w EXCEPT !.parser.cur_cmd = b,
                                     !.parser.state = "st_read_data"], ch, p)
        ELSE loop_read_data(w, ch, p)

rspamd_milter_consume_input(w, ch) == consume_loop(w, ch, w.parser.pos)

-----------------------------------------------------------------------------
(* rspamd_milter_handle_session *)

\* Results of read(2) and write(2): the number of bytes, 0 at EOF, and
\* -1 with errno EAGAIN or EINTR, -1 with another errno.
IO_EAGAIN == -1
IO_ERROR == -2

\* The outbuf node with the given id, in the chain or among the freed nodes.
ListOf(w, id) ==
    IF \E i \in 1..Len(w.priv.out_chain) : w.priv.out_chain[i].id = id
    THEN w.priv.out_chain
    ELSE w.priv.stale
IndexOf(l, id) == CHOOSE i \in 1..Len(l) : l[i].id = id
RemoveAt(l, i) == SubSeq(l, 1, i - 1) \o SubSeq(l, i + 1, Len(l))
DeleteNode(l, id) ==
    IF \E i \in 1..Len(l) : l[i].id = id THEN RemoveAt(l, IndexOf(l, id)) ELSE l
AdvanceNode(l, id, r) ==
    IF \E i \in 1..Len(l) : l[i].id = id
    THEN [l EXCEPT ![IndexOf(l, id)].pos = @ + r]
    ELSE l

\* The fatal branch shared by read and write: error_cb between retain and
\* release, then g_error_free.
io_error(w, ch, what) ==
    LET w1 == REF_RETAIN([Log(g_error_new(w, "errno"), what)
                             EXCEPT !.obs.fatal = TRUE])
        w2 == HostCallback(w1, "err_cb", ch)
    IN  REF_RELEASE(w2)

\* The code after DL_FOREACH_SAFE.
write_done(w, ch) ==
    LET w1 == Touch(w, ch)
        w2 == [Log(w1, "state_READ_MORE") EXCEPT !.priv.state = "READ_MORE"]
    IN  IF w1.ref.crashed THEN w1
        ELSE Ret(rspamd_milter_plan_io(w2, {EV_READ}), TRUE)

\* One iteration of DL_FOREACH_SAFE (priv->out_chain, obuf, obuf_tmp) and
\* the iterations after it; cur is the id of obuf (0: NULL), n counts the
\* write(2) calls of this invocation.
RECURSIVE write_loop(_, _, _, _)

\* After the fatal branch: the loop goes on with obuf_tmp.
write_after_error(w, ch, tmp, n) ==
    IF w.ref.crashed THEN w ELSE write_loop(w, ch, tmp, n + 1)

write_loop(w, ch, cur, n) ==
    IF cur = 0 THEN write_done(w, ch)
    ELSE
    LET l == ListOf(w, cur)
        i == IndexOf(l, cur)
        obuf == l[i]
        tmp == IF i < Len(l) THEN l[i + 1].id ELSE 0
        to_write == Len(obuf.buf) - obuf.pos
        r == IF n <= Len(ch.outs) THEN Min(ch.outs[n], to_write) ELSE to_write
        sent == SubSeq(obuf.buf, obuf.pos + 1, obuf.pos + r)
    IN  IF r = IO_EAGAIN
        THEN write_loop(rspamd_milter_plan_io(Log(w, "write_eagain"), {EV_WRITE}),
                        ch, tmp, n + 1)
        ELSE IF r = IO_ERROR \/ r = 0
        THEN write_after_error(Touch(io_error(w, ch, "write_fatal"), ch),
                               ch, tmp, n)
        ELSE IF r = to_write
        THEN write_loop([Log(w, "write") EXCEPT
                            !.sock.wire = @ \o sent,
                            !.priv.out_chain = DeleteNode(@, cur),
                            !.priv.stale = DeleteNode(@, cur)],
                        ch, tmp, n + 1)
        ELSE Ret(rspamd_milter_plan_io(
                    [Log(w, "write_short") EXCEPT
                        !.sock.wire = @ \o sent,
                        !.priv.out_chain = AdvanceNode(@, cur, r),
                        !.priv.stale = AdvanceNode(@, cur, r)],
                    {EV_WRITE}), TRUE)

\* case RSPAMD_MILTER_WRITE_REPLY: case RSPAMD_MILTER_WRITE_AND_DIE:
handle_write(w, ch) ==
    LET w0 == Touch(w, ch)
    IN  IF w0.ref.crashed THEN w0
        ELSE IF w0.priv.out_chain = <<>>
        THEN IF w0.priv.state = "WRITE_AND_DIE"
             THEN LET w1 == REF_RETAIN(w0)
                      w2 == HostCallback(w1, "fin_cb", ch)
                  IN  Ret(REF_RELEASE(w2), FALSE)
             ELSE Ret(rspamd_milter_plan_io(
                        [Log(w0, "state_READ_MORE") EXCEPT
                            !.priv.state = "READ_MORE"], {EV_READ}), TRUE)
        ELSE write_loop(w0, ch, w0.priv.out_chain[1].id, 1)

\* The buffer after the grow that precedes read(2), and the room it has.
read_buffer(w) ==
    IF w.buf.len >= Len(w.buf.mem)
    THEN rspamd_fstring_grow(w, w.buf.len * 2)
    ELSE w
read_room(w) == Len(read_buffer(w).buf.mem) - w.buf.len

\* case RSPAMD_MILTER_READ_MORE: ch.rd is the result of read(2).
handle_read(w, ch) ==
    LET w1 == read_buffer(w)
        r == ch.rd
        got == SubSeq(w1.sock.input, 1, r)
        w2 == [Log(w1, "read") EXCEPT
                 !.buf.mem = [i \in 1..Len(@) |->
                                IF i > w1.buf.len /\ i <= w1.buf.len + r
                                THEN got[i - w1.buf.len] ELSE @[i]],
                 !.buf.len = @ + r,
                 !.sock.input = SubSeq(@, r + 1, Len(@))]
    IN  IF r = IO_EAGAIN
        THEN handle_write(rspamd_milter_plan_io(Log(w1, "read_eagain"),
                                                {EV_READ}), ch)
        ELSE IF r = IO_ERROR
        THEN handle_write(io_error(w1, ch, "read_fatal"), ch)
        ELSE IF r = 0
        THEN handle_write(io_error(w1, ch, "read_fatal"), ch)
        ELSE rspamd_milter_consume_input(w2, ch)

\* case RSPAMD_MILTER_WANNA_DIE:
handle_die(w, ch) == Ret(REF_RELEASE(w), TRUE)

rspamd_milter_handle_session(w, ch) ==
    IF w.priv.state = "READ_MORE" THEN handle_read(w, ch)
    ELSE IF w.priv.state \in {"WRITE_REPLY", "WRITE_AND_DIE"}
    THEN handle_write(w, ch)
    ELSE handle_die(w, ch)

-----------------------------------------------------------------------------
(* rspamd_milter_io_handler *)

\* The event has fired: it is no longer pending (it is not EV_PERSIST);
\* the trace of the invocation starts empty.
Fired(w, what) ==
    [w EXCEPT !.priv.ev = {}, !.obs.log = <<what>>, !.obs.ncb = 0,
              !.obs.freed_runs = IF w.ref.freed THEN @ + 1 ELSE @,
              !.obs.entry = [state |-> w.priv.state,
                             out_chain |-> w.priv.out_chain,
                             dtor_calls |-> w.obs.dtor_calls]]

\* A handler without the EV_TIMEOUT branch.
io_handler_without_timeout(w, what, ch) ==
    LET w0 == Touch(Fired(w, what), ch)
    IN  IF w0.ref.crashed THEN w0 ELSE rspamd_milter_handle_session(w0, ch)

rspamd_milter_io_handler(w, what, ch) ==
    LET w0 == Touch(Fired(w, what), ch)
    IN  IF w0.ref.crashed THEN w0
        ELSE IF what = "EV_TIMEOUT"
        THEN rspamd_milter_on_protocol_error(g_error_new(w0, "ETIMEDOUT"), ch)
        ELSE rspamd_milter_handle_session(w0, ch)

-----------------------------------------------------------------------------
(* The verdict translator: rspamd_milter_send_task_results *)

\* A key of a libucl object: absent, or present with a value.
Absent == <<>>
Some(v) == <<v>>

\* The strings of milter_internal.h.
RSPAMD_MILTER_RCODE_REJECT == <<53, 53, 52>>
RSPAMD_MILTER_XCODE_REJECT == <<53, 46, 55, 46, 49>>
RSPAMD_MILTER_REJECT_MESSAGE == <<83, 112, 97, 109, 32, 109, 101, 115, 115, 97, 103, 101, 32, 114, 101, 106, 101, 99, 116, 101, 100>>
RSPAMD_MILTER_RCODE_TEMPFAIL == <<52, 53, 49>>
RSPAMD_MILTER_XCODE_TEMPFAIL == <<52, 46, 55, 46, 49>>
RSPAMD_MILTER_TEMPFAIL_MESSAGE == <<84, 114, 121, 32, 97, 103, 97, 105, 110, 32, 108, 97, 116, 101, 114>>
RSPAMD_MILTER_DKIM_HEADER == <<68, 75, 73, 77, 45, 83, 105, 103, 110, 97, 116, 117, 114, 101>>
RSPAMD_MILTER_ACTION_HEADER == <<88, 45, 83, 112, 97, 109, 45, 65, 99, 116, 105, 111, 110>>
RSPAMD_MILTER_SPAM_HEADER == <<88, 45, 83, 112, 97, 109>>

\* rspamd_milter_init_library with no spam_header given.
milter_ctx == [spam_header |-> RSPAMD_MILTER_SPAM_HEADER]

\* The action names a verdict carries.
STR_REJECT == <<114, 101, 106, 101, 99, 116>>
STR_SOFT_REJECT == <<115, 111, 102, 116, 32, 114, 101, 106, 101, 99, 116>>
STR_REWRITE_SUBJECT == <<114, 101, 119, 114, 105, 116, 101, 32, 115, 117, 98, 106, 101, 99, 116>>
STR_ADD_HEADER == <<97, 100, 100, 32, 104, 101, 97, 100, 101, 114>>
STR_GREYLIST == <<103, 114, 101, 121, 108, 105, 115, 116>>
STR_NO_ACTION == <<110, 111, 32, 97, 99, 116, 105, 111, 110>>
STR_BOGUS == <<98, 111, 103, 117, 115>>

\* rspamd_action_from_str (str, &action): a recognised name is stored into
\* action.  For any other name the function either leaves action as the
\* caller initialised it or stores "no action"; its result is not looked at.
rspamd_action_from_str(str, action, untouched) ==
    IF str = STR_REJECT THEN "METRIC_ACTION_REJECT"
    ELSE IF str = STR_SOFT_REJECT THEN "METRIC_ACTION_SOFT_REJECT"
    ELSE IF str = STR_REWRITE_SUBJECT THEN "METRIC_ACTION_REWRITE_SUBJECT"
    ELSE IF str = STR_ADD_HEADER THEN "METRIC_ACTION_ADD_HEADER"
    ELSE IF str = STR_GREYLIST THEN "METRIC_ACTION_GREYLIST"
    ELSE IF str = STR_NO_ACTION THEN "METRIC_ACTION_NOACTION"
    ELSE IF untouched THEN action
    ELSE "METRIC_ACTION_NOACTION"

set_reply_second_first(w, xcode, rcode, reply) ==
    rspamd_milter_send_action(w, RSPAMD_MILTER_REPLYCODE,
        [NoArgs EXCEPT !.value = rcode \o <<32>> \o xcode \o <<32>> \o reply])

\* rspamd_printf_gstring (buf, "%V %V %V", xcode, rcode, reply)
rspamd_milter_set_reply(w, xcode, rcode, reply) ==
    rspamd_milter_send_action(w, RSPAMD_MILTER_REPLYCODE,
        [NoArgs EXCEPT !.value = xcode \o <<32>> \o rcode \o <<32>> \o reply])

\* CHGHEADER (idx, name, "")
remove_header(w, key, idx) ==
    rspamd_milter_send_action(w, RSPAMD_MILTER_CHGHEADER,
        [NoArgs EXCEPT !.idx = idx, !.name = key, !.value = <<>>])

RECURSIVE remove_header_all_but_last(_, _, _, _)
remove_header_all_but_last(w, key, i, saved_nhdr) ==
    IF i >= saved_nhdr THEN w
    ELSE remove_header_all_but_last(remove_header(w, key, i), key, i + 1,
                                    saved_nhdr)

\* for (i = 1; i <= saved_nhdr; i ++)
RECURSIVE remove_header_all(_, _, _, _)
remove_header_all(w, key, i, saved_nhdr) ==
    IF i > saved_nhdr THEN w
    ELSE remove_header_all(remove_header(w, key, i), key, i + 1, saved_nhdr)

remove_header_safe_off_by_one(w, key, nhdr) ==
    LET saved_nhdr == TableGet(w.priv.headers, LowerSeq(key))
    IN  IF saved_nhdr = 0 THEN w
        ELSE IF nhdr >= 1 THEN remove_header(w, key, nhdr)
        ELSE IF nhdr = 0 THEN remove_header_all(w, key, 1, saved_nhdr)
        ELSE IF nhdr >= -saved_nhdr
        THEN remove_header(w, key, saved_nhdr + nhdr)
        ELSE w

rspamd_milter_remove_header_safe(w, key, nhdr) ==
    LET saved_nhdr == TableGet(w.priv.headers, LowerSeq(key))
    IN  IF saved_nhdr = 0 THEN w
        ELSE IF nhdr >= 1 THEN remove_header(w, key, nhdr)
        ELSE IF nhdr = 0 THEN remove_header_all(w, key, 1, saved_nhdr)
        ELSE IF nhdr >= -saved_nhdr
        THEN remove_header(w, key, saved_nhdr + nhdr + 1)
        ELSE w

\* The "milter" object of a verdict.  A key that is absent is Absent; the
\* objects are kept in the order ucl_object_iterate walks them.
\*   remove_headers: [key, isint, n]
\*   add_headers:    [key, type, s, has_value, order], one per value
\*   spam_header:    [type, s, entries], entries of [key, s]
NoBlock ==
    [type |-> "object", remove_headers |-> Absent, add_headers |-> Absent,
     change_from |-> Absent, reject |-> Absent, no_action |-> Absent,
     spam_header |-> Absent]

RECURSIVE block_remove_headers_unsafe(_, _, _)
block_remove_headers_unsafe(w, elt, k) ==
    IF k > Len(elt) THEN w
    ELSE block_remove_headers_unsafe(
            IF elt[k].isint /\ elt[k].n >= 1
            THEN remove_header(w, elt[k].key, elt[k].n)
            ELSE IF elt[k].isint
            THEN rspamd_milter_remove_header_safe(w, elt[k].key, elt[k].n)
            ELSE w,
            elt, k + 1)

\* while ((cur = ucl_object_iterate (elt, &it, true)) != NULL)
RECURSIVE block_remove_headers(_, _, _)
block_remove_headers(w, elt, k) ==
    IF k > Len(elt) THEN w
    ELSE block_remove_headers(
            IF elt[k].isint
            THEN rspamd_milter_remove_header_safe(w, elt[k].key, elt[k].n)
            ELSE w,
            elt, k + 1)

\* idx after one value of add_headers: "order" or "index" replaces it.
block_next_idx(v, idx) ==
    IF v.type = "object" /\ v.has_value /\ v.order # Absent
    THEN v.order[1] ELSE idx

block_add_header(w, v, idx) ==
    IF v.type = "string" \/ (v.type = "object" /\ v.has_value /\ idx < 0)
    THEN rspamd_milter_send_action(w, RSPAMD_MILTER_ADDHEADER,
            [NoArgs EXCEPT !.name = v.key, !.value = v.s])
    ELSE IF v.type = "object" /\ v.has_value
    THEN rspamd_milter_send_action(w, RSPAMD_MILTER_INSHEADER,
            [NoArgs EXCEPT !.idx = idx, !.name = v.key, !.value = v.s])
    ELSE w

RECURSIVE block_add_headers(_, _, _, _)
block_add_headers(w, elt, k, idx) ==
    IF k > Len(elt) THEN w
    ELSE block_add_headers(
            block_add_header(w, elt[k], block_next_idx(elt[k], idx)),
            elt, k + 1, block_next_idx(elt[k], idx))

block_change_from(w, obj) ==
    IF obj.change_from = Absent THEN w
    ELSE rspamd_milter_send_action(w, RSPAMD_MILTER_CHGFROM,
            [NoArgs EXCEPT !.value = obj.change_from[1]])

block_flags(w, obj) ==
    [w EXCEPT
        !.priv.discard_on_reject =
            IF obj.reject = Absent THEN @
            ELSE obj.reject[1] = <<100, 105, 115, 99, 97, 114, 100>>,
        !.priv.no_action =
            IF obj.no_action = Absent THEN @ ELSE obj.no_action[1]]

\* The body of if (obj && ucl_object_type (obj) == UCL_OBJECT).
block_object(w, obj) ==
    block_flags(
        block_change_from(
            block_add_headers(
                block_remove_headers(w,
                    IF obj.remove_headers = Absent THEN <<>>
                    ELSE obj.remove_headers[1], 1),
                IF obj.add_headers = Absent THEN <<>> ELSE obj.add_headers[1],
                1, -1),
            obj),
        obj)

\* spam_header given as an object: every key replaces its header.
RECURSIVE block_spam_headers(_, _, _)
block_spam_headers(w, entries, k) ==
    IF k > Len(entries) THEN w
    ELSE block_spam_headers(
            rspamd_milter_send_action(
                rspamd_milter_remove_header_safe(w, entries[k].key, 0),
                RSPAMD_MILTER_CHGHEADER,
                [NoArgs EXCEPT !.idx = 1, !.name = entries[k].key,
                               !.value = entries[k].s]),
            entries, k + 1)

Processed(w, r) == [w EXCEPT !.obs.processed = r]

\* if (action == METRIC_ACTION_ADD_HEADER)
block_spam_header(w, obj, action) ==
    IF action # "METRIC_ACTION_ADD_HEADER" \/ obj.type # "object"
       \/ obj.spam_header = Absent
    THEN Processed(w, FALSE)
    ELSE IF obj.spam_header[1].type = "string"
    THEN Processed(
            rspamd_milter_send_action(
                rspamd_milter_send_action(
                    rspamd_milter_remove_header_safe(w, milter_ctx.spam_header, 0),
                    RSPAMD_MILTER_CHGHEADER,
                    [NoArgs EXCEPT !.idx = 1, !.name = milter_ctx.spam_header,
                                   !.value = obj.spam_header[1].s]),
                RSPAMD_MILTER_ACCEPT, NoArgs),
            TRUE)
    ELSE IF obj.spam_header[1].type = "object"
    THEN Processed(
            rspamd_milter_send_action(
                block_spam_headers(w, obj.spam_header[1].entries, 1),
                RSPAMD_MILTER_ACCEPT, NoArgs),
            TRUE)
    ELSE Processed(w, FALSE)

\* w.obs.processed is the gboolean result.
rspamd_milter_process_milter_block(w, obj, action) ==
    block_spam_header(
        IF obj.type = "object" THEN block_object(w, obj) ELSE w,
        obj, action)

\* A verdict: the keys "action", "messages"."smtp_message", "milter",
\* "dkim-signature" and "subject" of the results object.
NoResults ==
    [action |-> Absent, smtp_message |-> Absent, milter |-> Absent,
     dkim |-> Absent, subject |-> Absent]

results_subject_added(w, results) ==
    IF results.subject = Absent THEN w
    ELSE rspamd_milter_send_action(w, RSPAMD_MILTER_ADDHEADER,
            [NoArgs EXCEPT !.name = <<83, 117, 98, 106, 101, 99, 116>>,
                           !.value = results.subject[1]])

\* elt = ucl_object_lookup (results, "subject"); if (elt) ...
results_subject(w, results) ==
    IF results.subject = Absent THEN w
    ELSE rspamd_milter_send_action(w, RSPAMD_MILTER_CHGHEADER,
            [NoArgs EXCEPT !.idx = 1,
                           !.name = <<83, 117, 98, 106, 101, 99, 116>>,
                           !.value = results.subject[1]])

\* switch (action)
results_switch(w, results, action) ==
    IF action = "METRIC_ACTION_REJECT"
    THEN IF w.priv.discard_on_reject
         THEN rspamd_milter_send_action(w, RSPAMD_MILTER_DISCARD, NoArgs)
         ELSE rspamd_milter_send_action(
                 \* called as (session, rcode, xcode, reply)
                 rspamd_milter_set_reply(w, RSPAMD_MILTER_RCODE_REJECT,
                     RSPAMD_MILTER_XCODE_REJECT,
                     IF results.smtp_message = Absent
                     THEN RSPAMD_MILTER_REJECT_MESSAGE
                     ELSE results.smtp_message[1]),
                 RSPAMD_MILTER_REJECT, NoArgs)
    ELSE IF action = "METRIC_ACTION_SOFT_REJECT"
    THEN rspamd_milter_send_action(
            rspamd_milter_set_reply(w, RSPAMD_MILTER_RCODE_TEMPFAIL,
                RSPAMD_MILTER_XCODE_TEMPFAIL,
                IF results.smtp_message = Absent
                THEN RSPAMD_MILTER_TEMPFAIL_MESSAGE
                ELSE results.smtp_message[1]),
            RSPAMD_MILTER_REJECT, NoArgs)
    ELSE IF action = "METRIC_ACTION_REWRITE_SUBJECT"
    THEN rspamd_milter_send_action(results_subject(w, results),
                                   RSPAMD_MILTER_ACCEPT, NoArgs)
    ELSE IF action = "METRIC_ACTION_ADD_HEADER"
    THEN rspamd_milter_send_action(
            rspamd_milter_send_action(
                rspamd_milter_remove_header_safe(w, milter_ctx.spam_header, 0),
                RSPAMD_MILTER_CHGHEADER,
                [NoArgs EXCEPT !.idx = 1, !.name = milter_ctx.spam_header,
                               !.value = <<89, 101, 115>>]),
            RSPAMD_MILTER_ACCEPT, NoArgs)
    ELSE rspamd_milter_send_action(w, RSPAMD_MILTER_ACCEPT, NoArgs)

\* if (processed) goto cleanup; if (priv->no_action) ...; switch (action)
results_action(w, results, action) ==
    IF w.obs.processed THEN w
    ELSE IF w.priv.no_action
    THEN rspamd_milter_send_action(
            rspamd_milter_send_action(w, RSPAMD_MILTER_ADDHEADER,
                [NoArgs EXCEPT !.name = RSPAMD_MILTER_ACTION_HEADER,
                               !.value = results.action[1]]),
            RSPAMD_MILTER_ACCEPT, NoArgs)
    ELSE results_switch(w, results, action)

\* DKIM-Signature
results_dkim(w, results) ==
    IF results.dkim = Absent THEN w
    ELSE rspamd_milter_send_action(w, RSPAMD_MILTER_INSHEADER,
            [NoArgs EXCEPT !.idx = 1, !.name = RSPAMD_MILTER_DKIM_HEADER,
                           !.value = results.dkim[1]])

\* Deal with milter headers
results_milter(w, results, action) ==
    IF results.milter = Absent THEN Processed(w, FALSE)
    ELSE rspamd_milter_process_milter_block(w, results.milter[1], action)

\* A translator that inserts the signature before it looks at the milter
\* block.
results_translate_dkim_first(w, results, action) ==
    results_action(
        results_milter(results_dkim(w, results), results, action),
        results, action)

results_translate(w, results, action) ==
    results_action(
        results_dkim(results_milter(w, results, action), results),
        results, action)

send_task_results_reject_on_missing(w, results, untouched) ==
    IF results = Absent
    THEN rspamd_milter_send_action(w, RSPAMD_MILTER_TEMPFAIL, NoArgs)
    ELSE IF results[1].action = Absent
    THEN rspamd_milter_send_action(w, RSPAMD_MILTER_REJECT, NoArgs)
    ELSE results_translate(w, results[1],
            rspamd_action_from_str(results[1].action[1],
                                   "METRIC_ACTION_REJECT", untouched))

\* results is Absent for a NULL pointer.  untouched: what
\* rspamd_action_from_str does with a name it does not know.
rspamd_milter_send_task_results(w, results, untouched) ==
    IF results = Absent
    THEN rspamd_milter_send_action(w, RSPAMD_MILTER_TEMPFAIL, NoArgs)
    ELSE IF results[1].action = Absent
    THEN rspamd_milter_send_action(w, RSPAMD_MILTER_TEMPFAIL, NoArgs)
    ELSE results_translate(w, results[1],
            rspamd_action_from_str(results[1].action[1],
                                   "METRIC_ACTION_REJECT", untouched))

-----------------------------------------------------------------------------
(* The MTA: the frames it sends on the connection *)

\* len:u32be || cmd:u8 || payload; f.len is the length the frame declares.
Frame(cmd, payload) == [cmd |-> cmd, payload |-> payload, len |-> Len(payload) + 1]
Encode(f) == BE32(f.len) \o <<f.cmd>> \o f.payload
RECURSIVE EncodeAll(_)
EncodeAll(fs) == IF fs = <<>> THEN <<>> ELSE Encode(Head(fs)) \o EncodeAll(Tail(fs))

\* A frame the parser must accept: it declares its true length, its command
\* is a known one and its payload fits.
ValidFrame(f) ==
    /\ f.len = Len(f.payload) + 1
    /\ rspamd_milter_is_valid_cmd(f.cmd)
    /\ Len(f.payload) <= RSPAMD_MILTER_MESSAGE_CHUNK * 2

F_OPTNEG == Frame(RSPAMD_MILTER_CMD_OPTNEG, BE32(2) \o BE32(0) \o BE32(0))
\* version 6, actions 0x141, protocol 5; the same with version 1; payloads
\* of one word and of three words and a byte
F_OPTNEG_NEW == Frame(RSPAMD_MILTER_CMD_OPTNEG, BE32(6) \o BE32(321) \o BE32(5))
F_OPTNEG_OLD == Frame(RSPAMD_MILTER_CMD_OPTNEG, BE32(1) \o BE32(321) \o BE32(5))
F_OPTNEG_SHORT == Frame(RSPAMD_MILTER_CMD_OPTNEG, BE32(2))
F_OPTNEG_LONG ==
    Frame(RSPAMD_MILTER_CMD_OPTNEG, BE32(2) \o BE32(0) \o BE32(0) \o <<0>>)
\* hostname "h", family '4', port 25, address "1"
F_CONNECT == Frame(RSPAMD_MILTER_CMD_CONNECT, <<104, 0, 52, 0, 25, 49, 0>>)
\* hostname "h" and nothing else
F_CONNECT_SHORT == Frame(RSPAMD_MILTER_CMD_CONNECT, <<104, 0>>)
\* for command 'M': i = q
F_MACRO == Frame(RSPAMD_MILTER_CMD_MACRO, <<77, 105, 0, 113, 0>>)
F_HELO == Frame(RSPAMD_MILTER_CMD_HELO, <<109, 0>>)
F_MAIL == Frame(RSPAMD_MILTER_CMD_MAIL, <<60, 97, 62, 0>>)
F_RCPT == Frame(RSPAMD_MILTER_CMD_RCPT, <<60, 98, 62, 0>>)
F_DATA == Frame(RSPAMD_MILTER_CMD_DATA, <<>>)
\* "S" : "x"
F_HEADER == Frame(RSPAMD_MILTER_CMD_HEADER, <<83, 0, 120, 0>>)
\* "s" : "y" and "T" : "z"
F_HEADER_LOWER == Frame(RSPAMD_MILTER_CMD_HEADER, <<115, 0, 121, 0>>)
F_HEADER_OTHER == Frame(RSPAMD_MILTER_CMD_HEADER, <<84, 0, 122, 0>>)
\* "X-Spam: x"
F_HEADER_SPAM ==
    Frame(RSPAMD_MILTER_CMD_HEADER, RSPAMD_MILTER_SPAM_HEADER \o <<0, 120, 0>>)
\* "S" with an empty value
F_HEADER_EMPTY == Frame(RSPAMD_MILTER_CMD_HEADER, <<83, 0, 0>>)
\* "S" and no value
F_HEADER_NAME_ONLY == Frame(RSPAMD_MILTER_CMD_HEADER, <<83, 0>>)
F_EOH == Frame(RSPAMD_MILTER_CMD_EOH, <<>>)
F_BODY == Frame(RSPAMD_MILTER_CMD_BODY, <<104, 105>>)
\* a body chunk of a NUL, a CR and a letter, and an empty one
F_BODY_NUL == Frame(RSPAMD_MILTER_CMD_BODY, <<0, 13, 106>>)
F_BODY_EMPTY == Frame(RSPAMD_MILTER_CMD_BODY, <<>>)
F_BODYEOB == Frame(RSPAMD_MILTER_CMD_BODYEOB, <<>>)
F_ABORT == Frame(RSPAMD_MILTER_CMD_ABORT, <<>>)
F_QUIT_NC == Frame(RSPAMD_MILTER_CMD_QUIT_NC, <<>>)
F_QUIT == Frame(RSPAMD_MILTER_CMD_QUIT, <<>>)
\* a command byte 'Z' that is no milter command, without and with payload
F_BAD_EMPTY == Frame(90, <<>>)
F_BAD_DATA == Frame(90, <<1>>)
\* a frame that declares more than 2 * CHUNK payload bytes
F_TOO_BIG == [cmd |-> RSPAMD_MILTER_CMD_BODY, payload |-> <<104>>,
              len |-> RSPAMD_MILTER_MESSAGE_CHUNK * 2 + 2]
\* a frame that declares and carries 2 * CHUNK payload bytes
F_BODY_FULL ==
    Frame(RSPAMD_MILTER_CMD_BODY,
          [i \in 1..(RSPAMD_MILTER_MESSAGE_CHUNK * 2) |-> 104])
\* a frame that declares length 0
F_TOO_SHORT == [cmd |-> RSPAMD_MILTER_CMD_DATA, payload |-> <<>>, len |-> 0]

Catalogue ==
    {F_OPTNEG, F_CONNECT_SHORT, F_MAIL, F_HEADER, F_BODYEOB, F_QUIT,
     F_BAD_EMPTY, F_TOO_BIG, F_TOO_SHORT}

SeqsUpTo(S, n) == UNION {[1..k -> S] : k \in 1..n}

\* Longer conversations.
Scenarios ==
    {<<F_OPTNEG, F_QUIT, F_MAIL>>,
     <<F_OPTNEG, F_MAIL, F_BODYEOB>>,
     <<F_OPTNEG, F_OPTNEG>>,
     <<F_HEADER, F_BAD_EMPTY>>,
     <<F_MAIL, F_TOO_BIG>>,
     <<F_BODYEOB, F_TOO_SHORT>>,
     <<F_MAIL, F_ABORT>>,
     <<F_HEADER, F_QUIT_NC>>,
     <<F_BODY, F_HEADER_NAME_ONLY, F_BODYEOB>>,
     <<F_QUIT, F_MAIL>>,
     <<F_BODY_FULL>>}

Streams == SeqsUpTo(Catalogue, MaxFrames) \cup Scenarios

\* Whole conversations of a well-behaved MTA.
Conversations ==
    {<<F_CONNECT, F_MACRO, F_HELO, F_MAIL, F_RCPT, F_HEADER, F_BODY, F_ABORT>>,
     <<F_CONNECT, F_MACRO, F_HELO, F_MAIL, F_RCPT, F_HEADER, F_BODY,
       F_QUIT_NC, F_MAIL, F_RCPT, F_BODYEOB>>,
     <<F_HEADER, F_HEADER_LOWER, F_HEADER_OTHER, F_ABORT, F_HEADER>>,
     <<F_HEADER, F_HEADER_EMPTY, F_EOH, F_BODY, F_BODY_NUL, F_BODY_EMPTY,
       F_BODYEOB>>,
     <<F_BODY, F_ABORT, F_HEADER_OTHER, F_EOH, F_BODY, F_BODYEOB, F_BODY_NUL,
       F_BODYEOB>>,
     <<F_OPTNEG_NEW, F_OPTNEG_OLD>>,
     <<F_OPTNEG_NEW, F_OPTNEG_SHORT>>,
     <<F_OPTNEG_LONG>>}

\* The environment of one connection.
\*   "split": the MTA's bytes arrive in reads of any size; every write(2)
\*            takes the whole buffer; the host only watches.
\*   "io":    read(2) returns all the bytes in flight that fit, or fails, or
\*            returns 0; write(2) may fail, return 0 or come short; the timer
\*            may fire; the host only watches.
\*   "host":  the host acts inside its callbacks and between the events;
\*            read(2) and write(2) either do all their work or fail fatally;
\*            the timer may fire.
\*   "talk":  a conversation over a socket that never fails: read(2)
\*            returns all the bytes in flight that fit, write(2) takes the
\*            whole buffer; the host only watches.
\*   "api":   the socket of "talk"; between the events the host calls the
\*            API: rspamd_milter_send_action with any action and
\*            rspamd_milter_send_task_results with any verdict.
Envs == {"split", "io", "host"}

\* What the MTA sends on a connection whose host uses the API.
ApiStreams ==
    {<<F_OPTNEG>>, <<F_HEADER, F_HEADER, F_MAIL>>,
     <<F_HEADER_SPAM, F_HEADER_SPAM>>, <<F_OPTNEG, F_QUIT>>,
     <<F_TOO_SHORT>>, <<F_HEADER, F_ABORT>>, <<F_QUIT_NC>>}

\* The verdicts the host delivers.
VerdictActions ==
    {STR_REJECT, STR_SOFT_REJECT, STR_REWRITE_SUBJECT, STR_ADD_HEADER,
     STR_GREYLIST, STR_NO_ACTION, STR_BOGUS}
VerdictReplies == {Absent, Some(<<110, 111>>)}
VerdictPositions == -3..3
VerdictBlocks ==
    {[NoBlock EXCEPT !.remove_headers =
          Some(<<[key |-> <<83>>, isint |-> TRUE, n |-> p]>>)] :
        p \in VerdictPositions}
    \cup {[NoBlock EXCEPT !.remove_headers =
               Some(<<[key |-> <<115>>, isint |-> TRUE, n |-> 0],
                      [key |-> <<84>>, isint |-> TRUE, n |-> 1],
                      [key |-> <<83>>, isint |-> FALSE, n |-> 0]>>)],
           [NoBlock EXCEPT !.reject = Some(<<100, 105, 115, 99, 97, 114, 100>>)],
           [NoBlock EXCEPT !.reject = Some(<<110, 111>>)],
           [NoBlock EXCEPT !.no_action = Some(TRUE)],
           [NoBlock EXCEPT !.no_action = Some(FALSE)],
           [NoBlock EXCEPT !.change_from = Some(<<120>>)],
           [NoBlock EXCEPT !.spam_header =
               Some([type |-> "string", s |-> <<120>>, entries |-> <<>>])],
           [NoBlock EXCEPT !.no_action = Some(TRUE),
                           !.spam_header =
               Some([type |-> "string", s |-> <<120>>, entries |-> <<>>])],
           [NoBlock EXCEPT !.spam_header =
               Some([type |-> "object", s |-> <<>>,
                     entries |-> <<[key |-> <<83>>, s |-> <<120>>]>>])],
           [NoBlock EXCEPT !.spam_header =
               Some([type |-> "int", s |-> <<>>, entries |-> <<>>])],
           [NoBlock EXCEPT !.add_headers =
               Some(<<[key |-> <<83>>, type |-> "string", s |-> <<120>>,
                       has_value |-> FALSE, order |-> Absent],
                      [key |-> <<84>>, type |-> "object", s |-> <<120>>,
                       has_value |-> TRUE, order |-> Absent],
                      [key |-> <<84>>, type |-> "object", s |-> <<121>>,
                       has_value |-> TRUE, order |-> Some(0)],
                      [key |-> <<85>>, type |-> "object", s |-> <<122>>,
                       has_value |-> TRUE, order |-> Absent],
                      [key |-> <<86>>, type |-> "object", s |-> <<>>,
                       has_value |-> FALSE, order |-> Some(2)]>>)],
           [NoBlock EXCEPT !.type = "string"]}
Verdicts ==
    {Absent, Some(NoResults),
     Some([NoResults EXCEPT !.smtp_message = Some(<<110, 111>>),
                            !.dkim = Some(<<120>>)])}
    \cup {Some([NoResults EXCEPT !.action = Some(x), !.smtp_message = r]) :
             x \in VerdictActions, r \in VerdictReplies}
    \cup {Some([NoResults EXCEPT !.action = Some(x), !.milter = Some(b)]) :
             x \in {STR_REJECT, STR_ADD_HEADER, STR_NO_ACTION, STR_BOGUS},
             b \in VerdictBlocks}
    \cup {Some([NoResults EXCEPT !.action = Some(x),
              !.milter = Some([NoBlock EXCEPT !.no_action = Some(TRUE)])]) :
             x \in VerdictActions}
    \cup {Some([NoResults EXCEPT !.action = Some(STR_NO_ACTION),
                                 !.dkim = Some(<<120>>)]),
          Some([NoResults EXCEPT !.action = Some(STR_REWRITE_SUBJECT),
                                 !.subject = Some(<<42, 32, 72, 105>>)]),
          Some([NoResults EXCEPT !.action = Some(STR_REWRITE_SUBJECT),
                                 !.subject = Some(<<>>),
                                 !.dkim = Some(<<120>>)]),
          Some([NoResults EXCEPT !.action = Some(STR_REJECT),
                                 !.subject = Some(<<120>>)]),
          Some([NoResults EXCEPT
                  !.action = Some(STR_NO_ACTION),
                  !.dkim = Some(<<120>>),
                  !.milter = Some([NoBlock EXCEPT
                      !.remove_headers =
                          Some(<<[key |-> <<83>>, isint |-> TRUE, n |-> 1]>>),
                      !.add_headers =
                          Some(<<[key |-> <<84>>, type |-> "string",
                                  s |-> <<120>>, has_value |-> FALSE,
                                  order |-> Absent]>>),
                      !.change_from = Some(<<102>>)])]),
          Some([NoResults EXCEPT
                  !.action = Some(STR_ADD_HEADER),
                  !.dkim = Some(<<120>>),
                  !.milter = Some([NoBlock EXCEPT
                      !.change_from = Some(<<102>>),
                      !.spam_header =
                          Some([type |-> "string", s |-> <<120>>,
                                entries |-> <<>>])])])}

-----------------------------------------------------------------------------
(* The state machine *)

JunkBytes == {0, 1}

WriteResults(w) ==
    IF w.sock.env = "io" THEN {IO_ERROR, IO_EAGAIN, 0, ShortWrite, BigWrite}
    ELSE IF w.sock.env = "host" THEN {IO_ERROR, BigWrite}
    ELSE {BigWrite}
ReadFailures(w) ==
    IF w.sock.env = "io" THEN {IO_ERROR, IO_EAGAIN, 0}
    ELSE IF w.sock.env = "host" THEN {IO_ERROR}
    ELSE {}
HostChoiceSeqs(w) ==
    IF w.sock.env = "host" THEN [1..MaxCallbacks -> HostChoices] ELSE {<<>>}
WriteResultSeqs(w) ==
    [1..Min(Len(w.priv.out_chain), MaxWrites) -> WriteResults(w)]
ReadSizes(w) ==
    LET most == Min(Len(w.sock.input), read_room(w))
    IN  IF w.sock.env = "split" THEN 1..most ELSE {most} \ {0}

\* The outcome of touching freed memory is drawn only in an invocation that
\* can meet freed memory: the session is already destroyed, or the
\* invocation can drop the last reference (the release of WANNA_DIE, an
\* unref inside a callback).
CrashChoices(w, cb) ==
    IF w.ref.freed \/ w.priv.state = "WANNA_DIE"
       \/ \E i \in 1..Len(cb) : cb[i] = "unref"
    THEN BOOLEAN
    ELSE {FALSE}

Choice(cb, junk, crash, rd, outs) ==
    [cb |-> cb, junk |-> junk, crash |-> crash, rd |-> rd, outs |-> outs]

Apply(w) ==
    /\ session' = w.session
    /\ priv' = w.priv
    /\ parser' = w.parser
    /\ buf' = w.buf
    /\ sock' = w.sock
    /\ ref' = w.ref
    /\ host' = w.host
    /\ obs' = w.obs

InitWithConfig(frames, env, discard_on_reject) ==
    /\ session = [hostname |-> <<>>, helo |-> <<>>, from |-> <<>>,
                  rcpts |-> <<>>, addr |-> NoAddr, macros |-> EmptyTable,
                  message |-> <<>>]
    /\ priv = [state |-> "READ_MORE", out_chain |-> <<>>, stale |-> <<>>,
               ev |-> {EV_READ}, headers |-> EmptyTable,
               discard_on_reject |-> discard_on_reject, no_action |-> FALSE]
    /\ parser = [pos |-> 0, cmd_start |-> 0, datalen |-> 0,
                 state |-> "st_len_1", cur_cmd |-> 0]
    /\ buf = [mem |-> [i \in 1..(RSPAMD_MILTER_MESSAGE_CHUNK + 5) |-> Uninit],
              len |-> 0]
    /\ sock = [input |-> EncodeAll(frames), frames |-> frames, wire |-> <<>>,
               env |-> env]
    /\ ref = [refcount |-> 1, freed |-> FALSE, crashed |-> FALSE]
    /\ host = [refs |-> 1, sends |-> 0, taken |-> 0,
               \* milter_ctx->discard_on_reject
               discard_on_reject |-> discard_on_reject]
    /\ obs = [log |-> <<>>, ncb |-> 0, in_cb |-> FALSE, ret |-> TRUE,
              disp |-> <<>>, enq |-> <<>>, optneg |-> FALSE,
              dtor_calls |-> 0, dtor_in_cb |-> FALSE, dtor_refcount |-> 0,
              uaf |-> FALSE, freed_runs |-> 0, fatal |-> FALSE,
              calls |-> <<>>, err |-> "", processed |-> FALSE,
              cb |-> [kind |-> "", state |-> "", err |-> "", refcount |-> 0],
              rd |-> [cmd |-> 0, len |-> 0, max |-> -1],
              pre |-> [state |-> "READ_MORE", session |-> session,
                       optneg |-> FALSE],
              entry |-> [state |-> "READ_MORE", out_chain |-> <<>>,
                         dtor_calls |-> 0]]

InitWith(frames, env) == InitWithConfig(frames, env, FALSE)

\* rspamd_milter_handle_socket: the session right after construction, with
\* its first rspamd_milter_handle_session call about to be made.  The
\* library was initialised with discard_on_reject either way.
Init ==
    \/ \E frames \in Streams, env \in Envs : InitWith(frames, env)
    \/ \E frames \in Conversations : InitWith(frames, "talk")
    \/ \E frames \in ApiStreams, discard_on_reject \in BOOLEAN :
          InitWithConfig(frames, "api", discard_on_reject)

\* The event is pending and the process is alive.
Armed ==
    /\ priv.ev # {}
    /\ ~ref.crashed
    /\ ref.freed => obs.freed_runs < MaxFreedRuns

\* The handler runs in READ_MORE and read(2) returns r > 0 bytes.
ReadData ==
    /\ Armed
    /\ priv.state = "READ_MORE"
    /\ \E r \in ReadSizes(World), cb \in HostChoiceSeqs(World),
          junk \in JunkBytes :
       \E crash \in CrashChoices(World, cb) :
          Apply(rspamd_milter_io_handler(World, "EV_IO",
                    Choice(cb, junk, crash, r, <<>>)))

\* The handler runs in READ_MORE and read(2) fails or returns 0.
ReadFail ==
    /\ Armed
    /\ priv.state = "READ_MORE"
    /\ \E r \in ReadFailures(World), cb \in HostChoiceSeqs(World),
          outs \in WriteResultSeqs(World) :
       \E crash \in CrashChoices(World, cb) :
          /\ r = 0 => sock.input = <<>>
          /\ Apply(rspamd_milter_io_handler(World, "EV_IO",
                    Choice(cb, 0, crash, r, outs)))

\* The handler runs in WRITE_REPLY or WRITE_AND_DIE.
HandleWrite ==
    /\ Armed
    /\ priv.state \in {"WRITE_REPLY", "WRITE_AND_DIE"}
    /\ \E cb \in HostChoiceSeqs(World), outs \in WriteResultSeqs(World) :
       \E crash \in CrashChoices(World, cb) :
          Apply(rspamd_milter_io_handler(World, "EV_IO",
                    Choice(cb, 0, crash, 0, outs)))

\* The handler runs in WANNA_DIE.
HandleDie ==
    /\ Armed
    /\ priv.state = "WANNA_DIE"
    /\ \E crash \in BOOLEAN :
          Apply(rspamd_milter_io_handler(World, "EV_IO",
                    Choice(<<>>, 0, crash, 0, <<>>)))

\* The handler runs with EV_TIMEOUT.
Timeout ==
    /\ Armed
    /\ sock.env \in {"io", "host"}
    /\ \E cb \in HostChoiceSeqs(World) :
       \E crash \in CrashChoices(World, cb) :
          Apply(rspamd_milter_io_handler(World, "EV_TIMEOUT",
                    Choice(cb, 0, crash, 0, <<>>)))

\* The host may use the session while it holds a reference to it.
HostMay ==
    /\ sock.env = "host"
    /\ host.refs > 0
    /\ ~ref.freed
    /\ ~ref.crashed

Called(w, what) == [w EXCEPT !.obs.log = <<what>>, !.obs.ncb = 0]

\* The host may call the API while it holds a reference.
ApiMay ==
    /\ sock.env \in {"host", "api"}
    /\ host.refs > 0
    /\ ~ref.freed
    /\ ~ref.crashed

\* The arguments the host passes to rspamd_milter_send_action.
ApiNames == {<<>>, <<83>>}
ApiValues == {<<>>, <<120>>, <<120, NUL, 121>>}
ApiIndexes == {0, 1, 300}
ApiWords == {0, 2, 70000}
ApiArgs(act) ==
    IF act \in {RSPAMD_MILTER_ADDHEADER}
    THEN {[NoArgs EXCEPT !.name = n, !.value = v] :
             n \in ApiNames, v \in ApiValues}
    ELSE IF act \in {RSPAMD_MILTER_CHGHEADER, RSPAMD_MILTER_INSHEADER}
    THEN {[NoArgs EXCEPT !.idx = i, !.name = n, !.value = v] :
             i \in ApiIndexes, n \in ApiNames, v \in ApiValues}
    ELSE IF act \in {RSPAMD_MILTER_REPLYCODE, RSPAMD_MILTER_ADDRCPT,
                     RSPAMD_MILTER_DELRCPT, RSPAMD_MILTER_CHGFROM}
    THEN {[NoArgs EXCEPT !.value = v] : v \in ApiValues}
    ELSE IF act = RSPAMD_MILTER_OPTNEG
    THEN {[NoArgs EXCEPT !.ver = x, !.actions = y, !.protocol = z] :
             x \in ApiWords, y \in ApiWords, z \in ApiWords}
    ELSE {NoArgs}

\* The actions the host asks for: every member of enum rspamd_milter_reply
\* and a value that is none of them.
ApiActions(w) ==
    IF w.sock.env = "api"
    THEN {RSPAMD_MILTER_ADDRCPT, RSPAMD_MILTER_DELRCPT, RSPAMD_MILTER_ACCEPT,
          RSPAMD_MILTER_CONTINUE, RSPAMD_MILTER_DISCARD,
          RSPAMD_MILTER_CHGFROM, RSPAMD_MILTER_ADDHEADER,
          RSPAMD_MILTER_INSHEADER, RSPAMD_MILTER_CHGHEADER,
          RSPAMD_MILTER_PROGRESS, RSPAMD_MILTER_REJECT,
          RSPAMD_MILTER_TEMPFAIL, RSPAMD_MILTER_REPLYCODE,
          RSPAMD_MILTER_OPTNEG, NUL}
    ELSE {RSPAMD_MILTER_ACCEPT}

\* One call of the API by the host, as the host sees it (kept for the
\* connections whose host uses the whole API).
ApiCall(w, fn, act, a, v, w1) ==
    IF w.sock.env # "api" THEN w1 ELSE
    [w1 EXCEPT !.obs.calls = Append(@,
        [fn |-> fn, act |-> act, a |-> a, v |-> v, ret |-> w1.obs.ret,
         before |-> Snap(w), after |-> Snap(w1),
         ev_before |-> w.priv.ev, ev |-> w1.priv.ev,
         callbacks |-> w1.obs.ncb,
         discard_on_reject |-> w1.priv.discard_on_reject,
         no_action |-> w1.priv.no_action,
         processed |-> w1.obs.processed])]

\* The host calls rspamd_milter_send_action outside any callback.
HostSendAction ==
    /\ ApiMay
    /\ host.sends < MaxHostActions
    /\ \E act \in ApiActions(World) : \E a \in ApiArgs(act) :
          Apply([ApiCall(World, "send_action", act, a, Absent,
                    rspamd_milter_send_action(Called(World, "send_action"),
                                              act, a))
                   EXCEPT !.host.sends = @ + 1])

\* The host calls rspamd_milter_send_task_results outside any callback.
HostSendResults ==
    /\ ApiMay
    /\ sock.env = "api"
    /\ host.sends < MaxHostActions
    /\ \E v \in Verdicts, untouched \in BOOLEAN :
          Apply([ApiCall(World, "send_task_results", NUL, NoArgs, v,
                    rspamd_milter_send_task_results(
                        Called(World, "send_task_results"), v, untouched))
                   EXCEPT !.host.sends = @ + 1])

\* rspamd_milter_session_unref
HostUnref ==
    /\ HostMay
    /\ Apply(REF_RELEASE([Called(World, "unref") EXCEPT !.host.refs = @ - 1]))

\* rspamd_milter_session_ref
HostRef ==
    /\ HostMay
    /\ host.taken < MaxHostRefs
    /\ Apply(REF_RETAIN([Called(World, "ref") EXCEPT !.host.refs = @ + 1,
                                                      !.host.taken = @ + 1]))

Next ==
    \/ ReadData
    \/ ReadFail
    \/ HandleWrite
    \/ HandleDie
    \/ Timeout
    \/ HostSendAction
    \/ HostSendResults
    \/ HostUnref
    \/ HostRef

Spec == Init /\ [][Next]_vars

-----------------------------------------------------------------------------
(* The event loop with a reliable socket: event_set / event_add of
   rspamd_milter_plan_io make libevent call rspamd_milter_io_handler when
   the socket is ready for an interest that is armed. *)

\* A connection whose socket fails no call and whose timer does not run
\* out: the bytes of the MTA arrive in pieces of any size, or the host uses
\* the API.
InitLive ==
    \/ \E frames \in Streams : InitWith(frames, "split")
    \/ \E frames \in ApiStreams, discard_on_reject \in BOOLEAN :
          InitWithConfig(frames, "api", discard_on_reject)

\* Bytes of the MTA have arrived and read interest is armed.
SocketReadable ==
    /\ EV_READ \in priv.ev
    /\ sock.input # <<>>
    /\ (ReadData \/ HandleWrite)

\* The socket takes bytes and write interest is armed.
SocketWritable ==
    /\ EV_WRITE \in priv.ev
    /\ (ReadData \/ HandleWrite)

NextLive ==
    \/ SocketReadable
    \/ SocketWritable
    \/ HostSendAction
    \/ HostSendResults

\* The socket becomes writable again and again; nothing says that the MTA
\* sends more.
LiveSpec == InitLive /\ [][NextLive]_vars /\ WF_vars(SocketWritable)

-----------------------------------------------------------------------------
(* Properties *)

Range(q) == {q[i] : i \in 1..Len(q)}
Count(q, t) == Cardinality({i \in 1..Len(q) : q[i] = t})

\* The (command, payload) pairs of the frames the MTA sends, and those
\* handed to rspamd_milter_process_command so far.
Sent == [i \in 1..Len(sock.frames) |->
            <<sock.frames[i].cmd, sock.frames[i].payload>>]
Dispatched == [i \in 1..Len(obs.disp) |->
            <<obs.disp[i].cmd, obs.disp[i].payload>>]

\* C1: when the MTA's bytes are a concatenation of valid frames, however
\* they are split into reads, the (command, payload) pairs handed to
\* rspamd_milter_process_command are the frames that were sent, in order.
C1_DispatchedAsSent ==
    (sock.env = "split" /\ \A i \in 1..Len(sock.frames) : ValidFrame(sock.frames[i]))
        => IsPrefix(Dispatched, Sent)

\* C2: as long as no write fails fatally, the bytes written to the socket
\* are a prefix of the concatenation of the enqueued replies in the order
\* they were enqueued.
C2_WireIsPrefixOfEnqueued ==
    (~obs.fatal /\ ~obs.uaf) => IsPrefix(sock.wire, Flatten(obs.enq))

\* C3: no command is dispatched to rspamd_milter_process_command while the
\* session is in WRITE_AND_DIE, the state QUIT puts it into.
C3_NoDispatchAfterQuit ==
    \A i \in 1..Len(obs.disp) : obs.disp[i].state # "WRITE_AND_DIE"

\* C4: as long as no I/O fails, a live session never goes from
\* WRITE_AND_DIE back to READ_MORE.
C4_WriteAndDieIsFinal ==
    [][(priv.state = "WRITE_AND_DIE" /\ ~ref.freed /\ ~obs'.fatal)
          => priv'.state # "READ_MORE"]_vars

\* C5: a known command other than OPTNEG and MACRO that is dispatched
\* before any OPTNEG is refused (rspamd_milter_process_command returns
\* FALSE, which it does only after rspamd_milter_on_protocol_error) and
\* leaves the envelope as it was.
C5_EnvelopeNeedsOptneg ==
    \A i \in 1..Len(obs.disp) :
        ( /\ ~obs.disp[i].optneg
          /\ rspamd_milter_is_valid_cmd(obs.disp[i].cmd)
          /\ obs.disp[i].cmd \notin {RSPAMD_MILTER_CMD_OPTNEG,
                                     RSPAMD_MILTER_CMD_MACRO} )
            => (~obs.disp[i].ok /\ obs.disp[i].kept)

\* C6: rspamd_milter_process_command reads no byte at or past
\* cmd_start + datalen.
C6_ReadsInsideFrame == obs.rd.max < obs.rd.len

\* C7: rspamd_milter_session_dtor runs at most once per session, and only
\* with a reference count of zero.
C7_DtorOnce ==
    /\ obs.dtor_calls <= 1
    /\ obs.dtor_calls >= 1 => obs.dtor_refcount = 0

\* C8: in a handler invocation where read(2) or write(2) fails fatally or
\* returns 0, the state becomes WANNA_DIE, error_cb is called once, and
\* nothing is read, written, set to READ_MORE or re-armed after the failure.
C8_FatalIoStops ==
    \A i \in 1..Len(obs.log) :
        (obs.log[i] \in {"read_fatal", "write_fatal"} /\ ~obs.uaf) =>
            /\ priv.state = "WANNA_DIE"
            /\ Count(obs.log, "err_cb") = 1
            /\ \A j \in (i + 1)..Len(obs.log) :
                  obs.log[j] \notin {"read", "write", "write_short",
                                     "state_READ_MORE", "plan"}

\* C9: every command dispatched to rspamd_milter_process_command is one of
\* the known inbound commands.
C9_OnlyKnownCommands ==
    \A i \in 1..Len(obs.disp) : rspamd_milter_is_valid_cmd(obs.disp[i].cmd)

\* C10: no command is dispatched with more than 2 * CHUNK payload bytes,
\* datalen is never negative, and once a byte is read past the header of a
\* frame that declares more, the protocol error has been raised.
C10_DatalenBounded ==
    /\ \A i \in 1..Len(obs.disp) :
          Len(obs.disp[i].payload) <= RSPAMD_MILTER_MESSAGE_CHUNK * 2
    /\ parser.datalen >= 0
    /\ ( /\ parser.state = "st_read_data"
         /\ parser.datalen > RSPAMD_MILTER_MESSAGE_CHUNK * 2
         /\ "read" \in Range(obs.log) )
          => ("proto_err" \in Range(obs.log) \/ buf.len = 0)

\* The oversized frame was met and refused.
C10_Witness ==
    /\ parser.state = "st_read_data"
    /\ parser.datalen > RSPAMD_MILTER_MESSAGE_CHUNK * 2
    /\ "proto_err" \in Range(obs.log)
    /\ priv.state = "WANNA_DIE"
    /\ obs.disp = <<>>

\* The envelope of a session on which nothing was received.
EmptyEnvelope(e) ==
    /\ e.session.from = <<>>
    /\ e.session.rcpts = <<>>
    /\ e.session.helo = <<>>
    /\ e.session.hostname = <<>>
    /\ e.session.message = <<>>
    /\ e.headers = EmptyTable

\* C11: after an ABORT command from and rcpts are absent, helo, hostname and
\* message are empty and no header is counted, while addr and macros are
\* what they were before the command.
C11_AbortKeepsAddrAndMacros ==
    \A i \in 1..Len(obs.disp) :
        obs.disp[i].cmd = RSPAMD_MILTER_CMD_ABORT =>
            /\ EmptyEnvelope(obs.disp[i].after)
            /\ obs.disp[i].after.session.addr = obs.disp[i].before.session.addr
            /\ obs.disp[i].after.session.macros = obs.disp[i].before.session.macros

\* An ABORT met a session with every part of the envelope, the address and
\* the macros set.
C11_Witness ==
    \E i \in 1..Len(obs.disp) :
        /\ obs.disp[i].cmd = RSPAMD_MILTER_CMD_ABORT
        /\ obs.disp[i].before.session.from # <<>>
        /\ obs.disp[i].before.session.rcpts # <<>>
        /\ obs.disp[i].before.session.helo # <<>>
        /\ obs.disp[i].before.session.hostname # <<>>
        /\ obs.disp[i].before.session.message # <<>>
        /\ obs.disp[i].before.headers # EmptyTable
        /\ obs.disp[i].before.session.addr # NoAddr
        /\ obs.disp[i].before.session.macros # EmptyTable
        /\ obs.disp[i].after.session.addr # NoAddr

\* C12: a QUIT_NC command clears the envelope, the address and the macros,
\* leaves the connection state, the output chain and the parser buffer as
\* they were, and the command that follows it finds the empty envelope.
C12_QuitNcClearsAll ==
    \A i \in 1..Len(obs.disp) :
        obs.disp[i].cmd = RSPAMD_MILTER_CMD_QUIT_NC =>
            /\ EmptyEnvelope(obs.disp[i].after)
            /\ obs.disp[i].after.session.addr = NoAddr
            /\ obs.disp[i].after.session.macros = EmptyTable
            /\ obs.disp[i].after.state = obs.disp[i].before.state
            /\ obs.disp[i].after.out_chain = obs.disp[i].before.out_chain
            /\ obs.disp[i].after.buf = obs.disp[i].before.buf
            /\ i < Len(obs.disp) =>
                  /\ EmptyEnvelope(obs.disp[i + 1].before)
                  /\ obs.disp[i + 1].before.session.addr = NoAddr
                  /\ obs.disp[i + 1].before.session.macros = EmptyTable

\* A QUIT_NC met a full session in READ_MORE and a second transaction
\* followed it up to BODYEOB.
C12_Witness ==
    \E i \in 1..Len(obs.disp) :
        /\ obs.disp[i].cmd = RSPAMD_MILTER_CMD_QUIT_NC
        /\ obs.disp[i].before.state = "READ_MORE"
        /\ obs.disp[i].before.session.from # <<>>
        /\ obs.disp[i].before.session.addr # NoAddr
        /\ obs.disp[i].before.session.macros # EmptyTable
        /\ obs.disp[i].before.headers # EmptyTable
        /\ obs.disp[Len(obs.disp)].cmd = RSPAMD_MILTER_CMD_BODYEOB
        /\ obs.disp[Len(obs.disp)].before.session.from # <<>>
        /\ Len(obs.disp) > i + 1

\* The frames a call of the API appended to the output chain.
Appended(c) ==
    SubSeq(c.after.out_chain, Len(c.before.out_chain) + 1,
           Len(c.after.out_chain))
KeepsQueued(c) ==
    /\ Len(c.after.out_chain) >= Len(c.before.out_chain)
    /\ SubSeq(c.after.out_chain, 1, Len(c.before.out_chain)) = c.before.out_chain

\* The payload of each action on the wire.
WireLayout(act, a) ==
    CASE act \in {RSPAMD_MILTER_ADDHEADER} ->
            a.name \o <<0>> \o a.value \o <<0>>
      [] act \in {RSPAMD_MILTER_INSHEADER, RSPAMD_MILTER_CHGHEADER} ->
            <<0, 0, a.idx \div 256, a.idx % 256>>
                \o a.name \o <<0>> \o a.value \o <<0>>
      [] act \in {RSPAMD_MILTER_ADDRCPT, RSPAMD_MILTER_DELRCPT,
                  RSPAMD_MILTER_CHGFROM, RSPAMD_MILTER_REPLYCODE} ->
            a.value \o <<0>>
      [] act = RSPAMD_MILTER_OPTNEG ->
            BE32(a.ver) \o BE32(a.actions) \o BE32(a.protocol)
      [] OTHER -> <<>>

\* Reading a frame back: the length, the command, the payload.
Decode(b) ==
    [cmd |-> b[5], payload |-> SubSeq(b, 6, 4 + FromBE32(SubSeq(b, 1, 4)))]

\* C13: a call of rspamd_milter_send_action with a known action appends
\* exactly one frame to the output chain: four bytes holding 1 + the payload
\* length most significant first, the action letter, the payload of the
\* action; reading the frame back gives the action and the payload.
C13_OneFramePerAction ==
    \A k \in 1..Len(obs.calls) :
        LET c == obs.calls[k]
            f == c.after.out_chain[Len(c.after.out_chain)].buf
            payload == WireLayout(c.act, c.a)
        IN  (c.fn = "send_action" /\ ActionKnown(c.act)) =>
                /\ c.ret
                /\ KeepsQueued(c)
                /\ Len(Appended(c)) = 1
                /\ Len(f) = 5 + Len(payload)
                /\ f[1] * 16777216 + f[2] * 65536 + f[3] * 256 + f[4]
                      = 1 + Len(payload)
                /\ f[5] = c.act
                /\ SubSeq(f, 6, Len(f)) = payload
                /\ Decode(f) = [cmd |-> c.act, payload |-> payload]

\* A header change with an index, a name and a value that holds a NUL was
\* queued behind a reply that was still unwritten.
C13_Witness ==
    \E k \in 1..Len(obs.calls) :
        /\ obs.calls[k].fn = "send_action"
        /\ obs.calls[k].act = RSPAMD_MILTER_CHGHEADER
        /\ obs.calls[k].a.idx = 300
        /\ obs.calls[k].a.name # <<>>
        /\ obs.calls[k].a.value = <<120, NUL, 121>>
        /\ obs.calls[k].before.out_chain # <<>>
        /\ obs.calls[k].ret

\* C14: when the event fires with a timeout nothing is read, written or
\* dispatched; error_cb is called once, with an ETIMEDOUT error, in state
\* WANNA_DIE, between a retain and a release; and the session is left in
\* WANNA_DIE unless the host queued a reply from inside the callback.
C14_TimeoutFailsSession ==
    (Len(obs.log) > 0 /\ obs.log[1] = "EV_TIMEOUT" /\ ~obs.uaf) =>
        /\ \A i \in 1..Len(obs.log) :
              obs.log[i] \notin {"read", "read_fatal", "write", "write_short",
                                 "write_fatal", "dispatch"}
        /\ Count(obs.log, "err_cb") = 1
        /\ obs.cb = [kind |-> "err_cb", state |-> "WANNA_DIE",
                     err |-> "ETIMEDOUT", refcount |-> obs.cb.refcount]
        /\ \E i \in 1..Len(obs.log) :
              /\ obs.log[i] = "retain"
              /\ i < Len(obs.log) /\ obs.log[i + 1] = "err_cb"
              /\ \E j \in (i + 2)..Len(obs.log) : obs.log[j] = "release"
        /\ ("enqueue" \notin Range(obs.log)) => priv.state = "WANNA_DIE"

\* The timer fired on a live session that had a reply queued.
C14_Witness ==
    /\ Len(obs.log) > 0 /\ obs.log[1] = "EV_TIMEOUT"
    /\ ~ref.freed
    /\ priv.out_chain # <<>>
    /\ obs.entry.state = "WRITE_REPLY"
    /\ priv.state = "WANNA_DIE"
    /\ obs.cb.err = "ETIMEDOUT"

\* The header name of a HEADER payload: the bytes before the first NUL, in
\* lower case (header names do not differ by case).
RECURSIVE UpToNul(_)
UpToNul(b) ==
    IF b = <<>> \/ Head(b) = 0 THEN <<>> ELSE <<Head(b)>> \o UpToNul(Tail(b))
HeaderNamed(d) ==
    [i \in 1..Len(UpToNul(d.payload)) |->
        IF UpToNul(d.payload)[i] \in 65..90
        THEN UpToNul(d.payload)[i] + 32 ELSE UpToNul(d.payload)[i]]
\* The last ABORT or QUIT_NC dispatched up to command i (0: none).
LastReset(i) ==
    LET R == {j \in 1..i : obs.disp[j].cmd \in {RSPAMD_MILTER_CMD_ABORT,
                                                RSPAMD_MILTER_CMD_QUIT_NC}}
    IN  IF R = {} THEN 0 ELSE CHOOSE j \in R : \A k \in R : k <= j
\* The accepted HEADER commands naming H since that reset, up to command i.
HeadersSeen(H, i) ==
    Cardinality({j \in (LastReset(i) + 1)..i :
                    /\ obs.disp[j].cmd = RSPAMD_MILTER_CMD_HEADER
                    /\ obs.disp[j].ok
                    /\ HeaderNamed(obs.disp[j]) = H})
ProbeNames == {<<115>>, <<116>>, <<117>>}

\* C15: after every command of a live session, the header-count map holds
\* for each header name the number of HEADER commands naming it that were
\* accepted since the last ABORT or QUIT_NC, and holds no entry for a name
\* not seen since then.
C15_HeaderCounts ==
    (~obs.uaf /\ ~ref.crashed) =>
    \A i \in 1..Len(obs.disp) : \A H \in ProbeNames :
        obs.disp[i].after.refcount > 0 =>
        IF HeadersSeen(H, i) = 0
        THEN H \notin DOMAIN obs.disp[i].after.headers
        ELSE /\ H \in DOMAIN obs.disp[i].after.headers
             /\ obs.disp[i].after.headers[H] = HeadersSeen(H, i)

\* A name was counted twice and another once, the counts were reset and the
\* first name was counted again.
C15_Witness ==
    \E i, j \in 1..Len(obs.disp) :
        /\ i < j
        /\ obs.disp[i].after.headers = (<<115>> :> 2) @@ (<<116>> :> 1)
        /\ LastReset(j) > i
        /\ obs.disp[j].after.headers = (<<115>> :> 1)

\* A reply frame on the wire.
Wire(act, payload) == BE32(1 + Len(payload)) \o <<act>> \o payload
\* The buffers of the frames a call appended.
AppendedBufs(c) == [i \in 1..Len(Appended(c)) |-> Appended(c)[i].buf]
\* CHGHEADER (idx, key, "")
EmptyChange(key, idx) ==
    Wire(RSPAMD_MILTER_CHGHEADER, BE32(idx) \o key \o <<0, 0>>)
IsEmptyChange(b, key) ==
    /\ Len(b) = 11 + Len(key)
    /\ b[5] = RSPAMD_MILTER_CHGHEADER
    /\ SubSeq(b, 10, Len(b)) = key \o <<0, 0>>
\* The empty-valued CHGHEADER frames for key that a call appended.
Removals(c, key) ==
    LET Test(b) == IsEmptyChange(b, key)
    IN  SelectSeq(AppendedBufs(c), Test)
\* The positions a removal request at p addresses among N headers.
RemovedPositions(N, p) ==
    IF p >= 1 THEN <<p>>
    ELSE IF p = 0 THEN [i \in 1..N |-> i]
    ELSE IF p >= -N THEN <<N + p + 1>>
    ELSE <<>>
\* The removal requests of a verdict's milter block.
RemovalRequests(c) ==
    IF c.fn # "send_task_results" \/ c.v = Absent THEN <<>>
    ELSE IF c.v[1].action = Absent \/ c.v[1].milter = Absent THEN <<>>
    ELSE IF c.v[1].milter[1].type # "object"
            \/ c.v[1].milter[1].remove_headers = Absent THEN <<>>
    ELSE c.v[1].milter[1].remove_headers[1]
Counted(c, key) ==
    IF LowerSeq(key) \in DOMAIN c.before.headers
    THEN c.before.headers[LowerSeq(key)] ELSE 0

\* C16: a removal request at position p for a header counted N >= 1 times
\* queues empty-valued CHGHEADER frames for that header and no others: one
\* at p when p >= 1; N of them at 1..N in ascending order when p = 0; one at
\* N + p + 1 when -N <= p < 0; none when p < -N.
C16_RemovalPositions ==
    \A k \in 1..Len(obs.calls) :
        \A j \in 1..Len(RemovalRequests(obs.calls[k])) :
            LET c == obs.calls[k]
                e == RemovalRequests(c)[j]
                want == RemovedPositions(Counted(c, e.key), e.n)
            IN  (e.isint /\ Counted(c, e.key) >= 1) =>
                    /\ KeepsQueued(c)
                    /\ Removals(c, e.key) =
                          [i \in 1..Len(want) |-> EmptyChange(e.key, want[i])]

\* The last of two headers was removed by counting from the end.
C16_Witness ==
    \E k \in 1..Len(obs.calls) :
        /\ Len(RemovalRequests(obs.calls[k])) = 1
        /\ RemovalRequests(obs.calls[k])[1].n = -1
        /\ Counted(obs.calls[k], RemovalRequests(obs.calls[k])[1].key) = 2
        /\ Removals(obs.calls[k], <<83>>) = <<EmptyChange(<<83>>, 2)>>

\* The verdict of a call of rspamd_milter_send_task_results that carries
\* an action (NoResults for any other call).
Verdict(c) ==
    IF c.fn # "send_task_results" \/ c.v = Absent THEN NoResults ELSE c.v[1]
HasAction(c, name) == Verdict(c).action = Some(name)
\* The frames that dispose of the message, among those a call appended.
IsDisposition(b) ==
    b[5] \in {RSPAMD_MILTER_ACCEPT, RSPAMD_MILTER_CONTINUE,
              RSPAMD_MILTER_DISCARD, RSPAMD_MILTER_REJECT,
              RSPAMD_MILTER_TEMPFAIL, RSPAMD_MILTER_REPLYCODE}
Disposition(c) == SelectSeq(AppendedBufs(c), IsDisposition)
\* The verdict asks for nothing but its action.
BareVerdict(c) == Verdict(c).milter = Absent /\ Verdict(c).dkim = Absent
EndsWith(q, tail) ==
    /\ Len(q) >= Len(tail)
    /\ SubSeq(q, Len(q) - Len(tail) + 1, Len(q)) = tail
\* "554 5.7.1 "
RejectCodes == <<53, 53, 52, 32, 53, 46, 55, 46, 49, 32>>
RejectText(c) ==
    IF Verdict(c).smtp_message = Absent THEN RSPAMD_MILTER_REJECT_MESSAGE
    ELSE Verdict(c).smtp_message[1]

\* C17: a verdict "reject", the no_action flag not set, queues as its
\* disposition DISCARD alone when the session's discard_on_reject flag is
\* set, and otherwise REPLYCODE "554 5.7.1 <text>" and then REJECT, <text>
\* being messages.smtp_message when present and the default text otherwise;
\* a verdict that asks for nothing else queues nothing else.
C17_RejectOrDiscard ==
    \A k \in 1..Len(obs.calls) :
        LET c == obs.calls[k]
        IN  (HasAction(c, STR_REJECT) /\ ~c.no_action) =>
                /\ KeepsQueued(c)
                /\ Disposition(c) =
                      IF c.discard_on_reject
                      THEN <<Wire(RSPAMD_MILTER_DISCARD, <<>>)>>
                      ELSE <<Wire(RSPAMD_MILTER_REPLYCODE,
                                  RejectCodes \o RejectText(c) \o <<0>>),
                             Wire(RSPAMD_MILTER_REJECT, <<>>)>>
                /\ BareVerdict(c) => AppendedBufs(c) = Disposition(c)

\* A reject verdict with its own text was delivered behind a queued reply
\* and answered with the reply code and REJECT.
C17_Witness ==
    \E k \in 1..Len(obs.calls) :
        /\ HasAction(obs.calls[k], STR_REJECT)
        /\ Verdict(obs.calls[k]).smtp_message = Some(<<110, 111>>)
        /\ obs.calls[k].before.out_chain # <<>>
        /\ ~obs.calls[k].discard_on_reject
        /\ Len(Appended(obs.calls[k])) = 2

\* The frames that replace the spam header: N removals, then the new value.
SpamHeaderFrames(N) ==
    [i \in 1..N |-> EmptyChange(RSPAMD_MILTER_SPAM_HEADER, i)]
        \o <<Wire(RSPAMD_MILTER_CHGHEADER,
                  <<0, 0, 0, 1>> \o RSPAMD_MILTER_SPAM_HEADER \o <<0>>
                      \o <<89, 101, 115>> \o <<0>>),
             Wire(RSPAMD_MILTER_ACCEPT, <<>>)>>

\* C18: a verdict "add header" that the milter block does not override
\* (no spam_header replacement, no_action not set) queues last, in this
\* order: one empty-valued CHGHEADER for each counted instance of the spam
\* header, at 1..N; CHGHEADER (1, spam header, "Yes"); ACCEPT.  A verdict
\* that asks for nothing else queues exactly these, so with N = 0 exactly
\* CHGHEADER (1, spam header, "Yes") and ACCEPT.
C18_AddHeader ==
    \A k \in 1..Len(obs.calls) :
        LET c == obs.calls[k]
            want == SpamHeaderFrames(Counted(c, RSPAMD_MILTER_SPAM_HEADER))
        IN  (HasAction(c, STR_ADD_HEADER) /\ ~c.no_action /\ ~c.processed) =>
                /\ KeepsQueued(c)
                /\ EndsWith(AppendedBufs(c), want)
                /\ BareVerdict(c) => AppendedBufs(c) = want

\* The message carried the spam header twice when "add header" arrived.
C18_Witness ==
    \E k \in 1..Len(obs.calls) :
        /\ HasAction(obs.calls[k], STR_ADD_HEADER)
        /\ BareVerdict(obs.calls[k])
        /\ Counted(obs.calls[k], RSPAMD_MILTER_SPAM_HEADER) = 2
        /\ Len(Appended(obs.calls[k])) = 4

\* C19: a verdict whose action is "greylist", "no action" or a string that
\* names no action is disposed of with ACCEPT alone: no REPLYCODE, REJECT,
\* DISCARD or TEMPFAIL.
C19_AcceptOtherwise ==
    \A k \in 1..Len(obs.calls) :
        (\/ HasAction(obs.calls[k], STR_GREYLIST)
         \/ HasAction(obs.calls[k], STR_NO_ACTION)
         \/ HasAction(obs.calls[k], STR_BOGUS)) =>
            Disposition(obs.calls[k]) = <<Wire(RSPAMD_MILTER_ACCEPT, <<>>)>>

\* C20: a null verdict, or one without an "action" key, queues TEMPFAIL and
\* nothing else, calls no callback of the host, leaves the reference count
\* as it was and leaves the session out of WANNA_DIE and WRITE_AND_DIE.
C20_MissingVerdictTempfail ==
    \A k \in 1..Len(obs.calls) :
        LET c == obs.calls[k]
        IN  (c.fn = "send_task_results" /\ Verdict(c).action = Absent) =>
                /\ KeepsQueued(c)
                /\ AppendedBufs(c) = <<Wire(RSPAMD_MILTER_TEMPFAIL, <<>>)>>
                /\ c.callbacks = 0
                /\ c.after.refcount = c.before.refcount
                /\ c.after.state \notin {"WANNA_DIE", "WRITE_AND_DIE"}
                /\ c.after.session = c.before.session

\* A verdict that has a message and a signature but no action was
\* delivered while the session held a counted header.
C20_Witness ==
    \E k \in 1..Len(obs.calls) :
        /\ obs.calls[k].fn = "send_task_results"
        /\ obs.calls[k].v # Absent
        /\ Verdict(obs.calls[k]).action = Absent
        /\ Verdict(obs.calls[k]).dkim # Absent
        /\ obs.calls[k].before.headers # EmptyTable
        /\ Len(Appended(obs.calls[k])) = 1

\* The three words of an OPTNEG payload.
OptnegWord(d, n) == FromBE32(SubSeq(d.payload, 4 * n - 3, 4 * n))
\* actions | RSPAMD_MILTER_ACTIONS_MASK, the mask being the six low bits.
WithAllActions(a) == (a \div 64) * 64 + 63
\* The command ran on a session that was there throughout.
Alive(d) == ~obs.uaf /\ d.before.refcount > 0 /\ d.after.refcount > 0

\* C21: an OPTNEG command whose payload is three words with a version of
\* at least RSPAMD_MILTER_PROTO_VER succeeds and queues one OPTNEG reply
\* with (RSPAMD_MILTER_PROTO_VER, actions | ACTIONS_MASK, NOREPLY_MASK);
\* with a lower version or another payload length it fails and nothing is
\* queued.
C21_OptnegReply ==
    \A i \in 1..Len(obs.disp) :
        LET d == obs.disp[i]
        IN  (d.cmd = RSPAMD_MILTER_CMD_OPTNEG /\ Alive(d)) =>
                /\ KeepsQueued(d)
                /\ IF Len(d.payload) = 12
                      /\ OptnegWord(d, 1) >= RSPAMD_MILTER_PROTO_VER
                   THEN /\ d.ok
                        /\ AppendedBufs(d) =
                             <<Wire(RSPAMD_MILTER_OPTNEG,
                                    BE32(RSPAMD_MILTER_PROTO_VER)
                                    \o BE32(WithAllActions(OptnegWord(d, 2)))
                                    \o BE32(RSPAMD_MILTER_FLAG_NOREPLY_MASK))>>
                   ELSE /\ ~d.ok
                        /\ Appended(d) = <<>>

\* A newer version with some actions was answered, and the short command
\* that followed was refused with the answer still queued.
C21_Witness ==
    /\ Len(obs.disp) = 2
    /\ obs.disp[1].cmd = RSPAMD_MILTER_CMD_OPTNEG
    /\ OptnegWord(obs.disp[1], 1) = 6
    /\ OptnegWord(obs.disp[1], 2) = 321
    /\ Len(Appended(obs.disp[1])) = 1
    /\ obs.disp[2].cmd = RSPAMD_MILTER_CMD_OPTNEG
    /\ Len(obs.disp[2].payload) = 4
    /\ ~obs.disp[2].ok
    /\ obs.disp[2].before.out_chain # <<>>
    /\ Appended(obs.disp[2]) = <<>>

\* What a command adds to the message: "name: value\r\n" for a HEADER whose
\* payload is the name, a NUL, the value and a NUL; "\r\n" for EOH; the
\* payload for BODY.
MessagePiece(d) ==
    IF ~d.ok THEN <<>>
    ELSE IF d.cmd = RSPAMD_MILTER_CMD_HEADER
    THEN UpToNul(d.payload) \o <<58, 32>>
            \o SubSeq(d.payload, Len(UpToNul(d.payload)) + 2,
                      Len(d.payload) - 1)
            \o <<13, 10>>
    ELSE IF d.cmd = RSPAMD_MILTER_CMD_EOH THEN <<13, 10>>
    ELSE IF d.cmd = RSPAMD_MILTER_CMD_BODY THEN d.payload
    ELSE <<>>
\* The pieces of the commands from..to, in the order received.
RECURSIVE MessagePieces(_, _)
MessagePieces(from, to) ==
    IF from > to THEN <<>>
    ELSE MessagePiece(obs.disp[from]) \o MessagePieces(from + 1, to)

\* C22: when BODYEOB calls the finish callback, session.message is what
\* the HEADER, EOH and BODY commands received since the last ABORT or
\* QUIT_NC added, piece by piece in the order received: no byte more, none
\* less, none moved.
C22_MessageAsReceived ==
    \A i \in 1..Len(obs.disp) :
        (obs.disp[i].cmd = RSPAMD_MILTER_CMD_BODYEOB /\ Alive(obs.disp[i])) =>
            obs.disp[i].before.session.message =
                MessagePieces(LastReset(i) + 1, i - 1)

\* A CHGHEADER frame for the spam header, whatever its index and value.
IsSpamHeaderChange(b) ==
    /\ b[5] = RSPAMD_MILTER_CHGHEADER
    /\ Len(b) >= 10 + Len(RSPAMD_MILTER_SPAM_HEADER)
    /\ SubSeq(b, 10, 10 + Len(RSPAMD_MILTER_SPAM_HEADER)) =
          RSPAMD_MILTER_SPAM_HEADER \o <<0>>
\* "X-Spam-Action"
ActionHeaderName == <<88, 45, 83, 112, 97, 109, 45, 65, 99, 116, 105, 111, 110>>
KnownActionNames ==
    {STR_REJECT, STR_SOFT_REJECT, STR_REWRITE_SUBJECT, STR_ADD_HEADER,
     STR_GREYLIST, STR_NO_ACTION}

\* C23: with the no_action flag of the session set, a verdict with any of
\* the six actions queues last ADDHEADER ("X-Spam-Action", action name) and
\* then ACCEPT, and queues no REPLYCODE, REJECT, DISCARD and no CHGHEADER
\* for the spam header.
C23_NoActionReplaces ==
    \A k \in 1..Len(obs.calls) :
        LET c == obs.calls[k]
        IN  (c.fn = "send_task_results" /\ c.no_action
             /\ \E n \in KnownActionNames : HasAction(c, n)) =>
                /\ KeepsQueued(c)
                /\ EndsWith(AppendedBufs(c),
                      <<Wire(RSPAMD_MILTER_ADDHEADER,
                             ActionHeaderName \o <<0>>
                                 \o Verdict(c).action[1] \o <<0>>),
                        Wire(RSPAMD_MILTER_ACCEPT, <<>>)>>)
                /\ Disposition(c) = <<Wire(RSPAMD_MILTER_ACCEPT, <<>>)>>
                /\ \A i \in 1..Len(AppendedBufs(c)) :
                      ~IsSpamHeaderChange(AppendedBufs(c)[i])

\* CHGHEADER (1, "Subject", subject) and ACCEPT
SubjectFrames(subject) ==
    <<Wire(RSPAMD_MILTER_CHGHEADER,
           <<0, 0, 0, 1>> \o <<83, 117, 98, 106, 101, 99, 116, 0>>
               \o subject \o <<0>>),
      Wire(RSPAMD_MILTER_ACCEPT, <<>>)>>

\* C24: a verdict "rewrite subject" with a subject, the no_action flag not
\* set, queues last CHGHEADER (1, "Subject", subject) and then ACCEPT; a
\* verdict that asks for nothing else queues exactly these two.
C24_RewriteSubject ==
    \A k \in 1..Len(obs.calls) :
        LET c == obs.calls[k]
        IN  (HasAction(c, STR_REWRITE_SUBJECT) /\ ~c.no_action
             /\ Verdict(c).subject # Absent) =>
                /\ KeepsQueued(c)
                /\ EndsWith(AppendedBufs(c),
                            SubjectFrames(Verdict(c).subject[1]))
                /\ Disposition(c) = <<Wire(RSPAMD_MILTER_ACCEPT, <<>>)>>
                /\ BareVerdict(c) =>
                      AppendedBufs(c) = SubjectFrames(Verdict(c).subject[1])

\* The subject "* Hi" was set behind a queued reply.
C24_Witness ==
    \E k \in 1..Len(obs.calls) :
        /\ HasAction(obs.calls[k], STR_REWRITE_SUBJECT)
        /\ Verdict(obs.calls[k]).subject = Some(<<42, 32, 72, 105>>)
        /\ obs.calls[k].before.out_chain # <<>>
        /\ Len(Appended(obs.calls[k])) = 2

\* C25: when an invocation of the handler that started in WRITE_REPLY
\* leaves the session in READ_MORE, the outbound queue is empty; an
\* invocation in which write(2) returned EAGAIN or EINTR ends in a writing
\* state with write interest armed, and one that wrote nothing leaves the
\* queue as it was.
C25_ReadMoreOnlyWhenDrained ==
    (/\ Len(obs.log) > 0 /\ obs.log[1] = "EV_IO"
     /\ obs.entry.state = "WRITE_REPLY"
     /\ ~obs.uaf /\ ~ref.freed /\ ~ref.crashed) =>
        /\ priv.state = "READ_MORE" => priv.out_chain = <<>>
        /\ "write_eagain" \in Range(obs.log) =>
              /\ priv.state \in {"WRITE_REPLY", "WRITE_AND_DIE"}
              /\ EV_WRITE \in priv.ev
              /\ (Range(obs.log) \cap {"write", "write_short"} = {}) =>
                    priv.out_chain = obs.entry.out_chain

\* C26: after an invocation of the handler in which read(2) returned data,
\* so that rspamd_milter_consume_input ran, and which returned TRUE with no
\* protocol error, the armed interest is read and write if the outbound
\* queue is not empty and read alone otherwise.
C26_InterestFollowsQueue ==
    (/\ "read" \in Range(obs.log)
     /\ "proto_err" \notin Range(obs.log)
     /\ obs.ret
     /\ ~obs.uaf /\ ~ref.freed /\ ~ref.crashed) =>
        priv.ev = IF priv.out_chain # <<>> THEN {EV_READ, EV_WRITE}
                  ELSE {EV_READ}

\* The session has ended: it failed, it was destroyed, or the process died.
Over == priv.state = "WANNA_DIE" \/ ref.freed \/ ref.crashed

\* C27: with a socket that becomes writable again and again, no fatal I/O
\* error and no timeout, whatever is in the outbound queue is written and
\* leaves the queue, whether or not the MTA sends anything more.
C27_QueuedIsWritten ==
    (priv.out_chain # <<>>) ~> (priv.out_chain = <<>> \/ Over)

\* C28: a rspamd_milter_send_action call of the host that returns TRUE
\* leaves the state WRITE_REPLY, write interest armed and one new frame,
\* unwritten and for the action asked for, behind the frames that were
\* queued; a call with an unknown action returns FALSE and changes neither
\* the queue, nor the state, nor the armed interest.
C28_SendActionArmsWrite ==
    \A k \in 1..Len(obs.calls) :
        LET c == obs.calls[k]
            n == Len(c.before.out_chain)
        IN  c.fn = "send_action" =>
              IF ActionKnown(c.act)
              THEN /\ c.ret
                   /\ c.after.state = "WRITE_REPLY"
                   /\ EV_WRITE \in c.ev
                   /\ Len(c.after.out_chain) = n + 1
                   /\ SubSeq(c.after.out_chain, 1, n) = c.before.out_chain
                   /\ c.after.out_chain[n + 1].pos = 0
                   /\ c.after.out_chain[n + 1].buf[5] = c.act
              ELSE /\ ~c.ret
                   /\ c.after = c.before
                   /\ c.ev = c.ev_before

\* The host asked for an action after QUIT, while the session was waiting
\* to write the frame still queued.
C28_Witness ==
    \E k \in 1..Len(obs.calls) :
        /\ obs.calls[k].fn = "send_action"
        /\ obs.calls[k].ret
        /\ obs.calls[k].before.state = "WRITE_AND_DIE"
        /\ obs.calls[k].before.out_chain # <<>>

\* The place in the trace of this invocation of its j-th dispatch, and the
\* trace from there up to the next dispatch.
DispatchAt(j) ==
    CHOOSE i \in 1..Len(obs.log) :
        /\ obs.log[i] = "dispatch"
        /\ Count(SubSeq(obs.log, 1, i), "dispatch") = j
TraceOf(j) ==
    LET from == DispatchAt(j)
        to == IF j < Count(obs.log, "dispatch")
              THEN DispatchAt(j + 1) - 1 ELSE Len(obs.log)
    IN  SubSeq(obs.log, from + 1, to)

\* C29: a QUIT met with an empty outbound queue sets WANNA_DIE, calls the
\* finish callback once between a retain and a release and returns FALSE:
\* it is the last command dispatched in that invocation, and unless the
\* host queued something in the callback no event is armed afterwards.  A
\* QUIT met with a non-empty queue sets WRITE_AND_DIE, calls no callback
\* and leaves the queue alone.
C29_QuitEndsOrDrains ==
    LET n == Count(obs.log, "dispatch")
        first == Len(obs.disp) - n
    IN  \A j \in 1..n :
        LET d == obs.disp[first + j]
            t == TraceOf(j)
        IN  (d.cmd = RSPAMD_MILTER_CMD_QUIT /\ Alive(d) /\ ~ref.freed) =>
              IF d.before.out_chain = <<>>
              THEN /\ ~d.ok
                   /\ j = n
                   /\ Count(t, "fin_cb") = 1
                   /\ Len(t) >= 3
                   /\ t[1] = "retain" /\ t[2] = "fin_cb"
                   /\ t[Len(t)] = "release"
                   /\ obs.cb.state = "WANNA_DIE"
                   /\ d.after.out_chain = <<>> =>
                         /\ "plan" \notin Range(t)
                         /\ d.after.state = "WANNA_DIE"
                         /\ priv.state = "WANNA_DIE"
                         /\ priv.ev = {}
              ELSE /\ d.ok
                   /\ d.after.state = "WRITE_AND_DIE"
                   /\ d.after.out_chain = d.before.out_chain
                   /\ "fin_cb" \notin Range(t)

\* QUIT came with an empty queue while a MAIL frame was behind it in the
\* buffer, and the host kept the session.
C29_Witness ==
    /\ sock.frames = <<F_QUIT, F_MAIL>>
    /\ sock.input = <<>>
    /\ Len(obs.disp) = 1
    /\ obs.disp[1].cmd = RSPAMD_MILTER_CMD_QUIT
    /\ obs.log = <<"EV_IO", "read", "dispatch", "retain", "fin_cb", "release">>
    /\ priv.state = "WANNA_DIE"
    /\ ~ref.freed

\* C30: BODYEOB calls the finish callback once, between a retain and a
\* release, and returns TRUE.  When the host neither queues a reply nor
\* drops a reference in the callback, the envelope, the message, the header counts, the outbound queue, the
\* buffer, the connection state and the reference count are after the
\* command what they were before it; whatever the host does, the core
\* leaves the envelope, the message and the header counts alone and takes
\* nothing from the queue.
C30_BodyEobOnlyCallsBack ==
    LET n == Count(obs.log, "dispatch")
        first == Len(obs.disp) - n
    IN  \A j \in 1..n :
        LET d == obs.disp[first + j]
            t == TraceOf(j)
        IN  (d.cmd = RSPAMD_MILTER_CMD_BODYEOB /\ Alive(d) /\ ~ref.freed) =>
              /\ d.ok
              /\ Count(t, "fin_cb") = 1
              /\ Len(t) >= 3
              /\ t[1] = "retain" /\ t[2] = "fin_cb"
              /\ d.after.session = d.before.session
              /\ d.after.headers = d.before.headers
              /\ IsPrefix(d.before.out_chain, d.after.out_chain)
              /\ (/\ d.after.out_chain = d.before.out_chain
                  /\ d.after.refcount = d.before.refcount) =>
                    d.after = d.before

\* BODYEOB closed a message with a header and a body, and the host did
\* nothing in the callback.
C30_Witness ==
    \E k \in 1..Len(obs.disp) :
        /\ obs.disp[k].cmd = RSPAMD_MILTER_CMD_BODYEOB
        /\ obs.disp[k].before.session.message # <<>>
        /\ obs.disp[k].before.headers # EmptyTable
        /\ obs.disp[k].after = obs.disp[k].before
        /\ obs.disp[k].before.refcount > 0

\* C31: rspamd_milter_session_dtor never runs while a callback that the
\* core called (finish_cb or error_cb) is executing, whether or not the
\* host drops its reference inside it.
C31_NoDtorInsideCallback == ~obs.dtor_in_cb

\* The host dropped its reference inside a callback and the session was
\* destroyed by the release of the core that followed.
C31_Witness ==
    /\ obs.dtor_calls = 1
    /\ \E i \in 1..Len(obs.log) :
          /\ obs.log[i] \in {"fin_cb", "err_cb"}
          /\ i + 3 <= Len(obs.log)
          /\ obs.log[i + 1] = "release"
          /\ obs.log[i + 2] = "release"
          /\ obs.log[i + 3] = "dtor"

\* C32: the length field of every frame handed to
\* rspamd_milter_process_command, which counts the command byte and the
\* payload, is at most 2 * CHUNK; a frame that declares 2 * CHUNK + 1 is
\* not dispatched.
C32_LenBounded ==
    \A i \in 1..Len(obs.disp) :
        Len(obs.disp[i].payload) + 1 <= RSPAMD_MILTER_MESSAGE_CHUNK * 2

\* A HEADER payload that is not a name and its NUL followed by a value and
\* its NUL: it holds no NUL, or does not end with one, or its only NUL is
\* its last byte.
MalformedHeader(p) ==
    \/ 0 \notin Range(p)
    \/ p[Len(p)] # 0
    \/ Len(UpToNul(p)) = Len(p) - 1

\* C33: a HEADER command with such a payload is refused with a protocol
\* error and leaves the message and the header counts as they were.
C33_MalformedHeaderRefused ==
    \A i \in 1..Len(obs.disp) :
        LET d == obs.disp[i]
        IN  (/\ d.cmd = RSPAMD_MILTER_CMD_HEADER
             /\ MalformedHeader(d.payload)
             /\ Alive(d) /\ ~ref.crashed) =>
                /\ ~d.ok
                /\ d.after.state = "WANNA_DIE"
                /\ d.after.session.message = d.before.session.message
                /\ d.after.headers = d.before.headers

\* The command bytes of the frames a call appended.
AppendedCmds(c) == [i \in 1..Len(AppendedBufs(c)) |-> AppendedBufs(c)[i][5]]
\* INSHEADER (1, "DKIM-Signature", value)
DkimFrame(value) ==
    Wire(RSPAMD_MILTER_INSHEADER,
         <<0, 0, 0, 1>> \o RSPAMD_MILTER_DKIM_HEADER \o <<0>> \o value \o <<0>>)

\* C34: for a verdict whose milter block changes the sender, the frames of
\* the block come first and in the order removals (CHGHEADER), additions
\* (ADDHEADER, INSHEADER), CHGFROM; the DKIM-Signature of the verdict is
\* inserted behind the CHGFROM frame.
C34_BlockOrder ==
    \A k \in 1..Len(obs.calls) :
        LET c == obs.calls[k]
            v == Verdict(c)
            q == AppendedCmds(c)
        IN  (/\ c.fn = "send_task_results"
             /\ v.action # Absent /\ v.milter # Absent
             /\ v.milter[1].type = "object"
             /\ v.milter[1].change_from # Absent) =>
              \E f \in 1..Len(q) :
                /\ q[f] = RSPAMD_MILTER_CHGFROM
                /\ \A i \in 1..(f - 1) :
                      q[i] \in {RSPAMD_MILTER_CHGHEADER,
                                RSPAMD_MILTER_ADDHEADER,
                                RSPAMD_MILTER_INSHEADER}
                /\ \A i, j \in 1..(f - 1) :
                      (i < j /\ q[j] = RSPAMD_MILTER_CHGHEADER) =>
                          q[i] = RSPAMD_MILTER_CHGHEADER
                /\ \A i \in (f + 1)..Len(q) : q[i] # RSPAMD_MILTER_CHGFROM
                /\ v.dkim # Absent =>
                      /\ \E i \in (f + 1)..Len(q) :
                            AppendedBufs(c)[i] = DkimFrame(v.dkim[1])
                      /\ \A i \in 1..(f - 1) :
                            AppendedBufs(c)[i] # DkimFrame(v.dkim[1])

\* A verdict removed a header, added one, changed the sender and carried a
\* signature.
C34_Witness ==
    \E k \in 1..Len(obs.calls) :
        /\ obs.calls[k].fn = "send_task_results"
        /\ AppendedCmds(obs.calls[k]) =
              <<RSPAMD_MILTER_CHGHEADER, RSPAMD_MILTER_ADDHEADER,
                RSPAMD_MILTER_CHGFROM, RSPAMD_MILTER_INSHEADER,
                RSPAMD_MILTER_ACCEPT>>

\* The frames that end the handling of a message.
FinalCmds ==
    {RSPAMD_MILTER_ACCEPT, RSPAMD_MILTER_REJECT, RSPAMD_MILTER_DISCARD,
     RSPAMD_MILTER_TEMPFAIL}

\* C35: for a verdict with an action key, rspamd_milter_send_task_results
\* queues exactly one of ACCEPT, REJECT, DISCARD and TEMPFAIL, at most one
\* REPLYCODE, and the disposition is the last frame it queues.
C35_DispositionLast ==
    \A k \in 1..Len(obs.calls) :
        LET c == obs.calls[k]
            q == AppendedCmds(c)
        IN  (c.fn = "send_task_results" /\ Verdict(c).action # Absent) =>
              /\ Cardinality({i \in 1..Len(q) : q[i] \in FinalCmds}) = 1
              /\ Cardinality({i \in 1..Len(q) :
                                 q[i] = RSPAMD_MILTER_REPLYCODE}) <= 1
              /\ q[Len(q)] \in FinalCmds

\* C36: once rspamd_milter_session_dtor has run, the core neither reads nor
\* writes the session and does not arm its event again.
C36_NoUseAfterFree == ~obs.uaf /\ (ref.freed => priv.ev = {})

\* C37: right after an ABORT or a QUIT_NC the session's discard_on_reject
\* flag is the one the library was configured with and no_action is
\* FALSE, whatever a verdict of the transaction before had set.
C37_OverridesEndWithTransaction ==
    (/\ Len(obs.disp) > 0
     /\ obs.disp[Len(obs.disp)].cmd \in {RSPAMD_MILTER_CMD_ABORT,
                                         RSPAMD_MILTER_CMD_QUIT_NC}
     /\ "dispatch" \in Range(obs.log)
     /\ ~obs.uaf /\ ~ref.freed /\ ~ref.crashed) =>
        /\ priv.no_action = FALSE
        /\ priv.discard_on_reject = host.discard_on_reject

\* The additions a verdict's milter block asks for.
AdditionRequests(c) ==
    IF c.fn # "send_task_results" \/ c.v = Absent THEN <<>>
    ELSE IF c.v[1].action = Absent \/ c.v[1].milter = Absent THEN <<>>
    ELSE IF c.v[1].milter[1].type # "object"
            \/ c.v[1].milter[1].add_headers = Absent THEN <<>>
    ELSE c.v[1].milter[1].add_headers[1]
\* The frame one entry of add_headers asks for, judged by that entry alone.
OwnFrame(e) ==
    IF e.type = "object" /\ ~e.has_value THEN <<>>
    ELSE IF e.type = "object" /\ e.order # Absent /\ e.order[1] >= 0
    THEN <<Wire(RSPAMD_MILTER_INSHEADER,
                BE32(e.order[1]) \o e.key \o <<0>> \o e.s \o <<0>>)>>
    ELSE <<Wire(RSPAMD_MILTER_ADDHEADER, e.key \o <<0>> \o e.s \o <<0>>)>>
RECURSIVE OwnFrames(_, _)
OwnFrames(elt, k) ==
    IF k > Len(elt) THEN <<>>
    ELSE OwnFrame(elt[k]) \o OwnFrames(elt, k + 1)
\* The frames a call appended for header additions and insertions.
IsAddition(b) == b[5] \in {RSPAMD_MILTER_ADDHEADER, RSPAMD_MILTER_INSHEADER}

\* C38: every entry of add_headers is sent by its own "order": INSHEADER at
\* that order when the entry has one that is >= 0, ADDHEADER otherwise,
\* whatever the entries before it carried.
C38_OrderPerEntry ==
    \A k \in 1..Len(obs.calls) :
        LET c == obs.calls[k]
        IN  (AdditionRequests(c) # <<>> /\ KeepsQueued(c)) =>
                IsPrefix(OwnFrames(AdditionRequests(c), 1),
                         SelectSeq(AppendedBufs(c), IsAddition))

\* A CHGHEADER frame, of any index and value, that names the header key.
ChangesHeader(b, key) ==
    /\ b[5] = RSPAMD_MILTER_CHGHEADER
    /\ Len(b) >= 10 + Len(key)
    /\ SubSeq(b, 10, 10 + Len(key)) = key \o <<0>>
\* The last frame dispatched before the call k was an ABORT.
CalledAfterAbort(k) ==
    /\ k = Len(obs.calls)
    /\ "dispatch" \notin Range(obs.log)
    /\ Len(obs.disp) > 1
    /\ obs.disp[Len(obs.disp)].cmd = RSPAMD_MILTER_CMD_ABORT

\* C39: a removal request for a header that has not been counted since the
\* last reset queues no frame for it, whatever its position p.
C39_UnseenHeaderNotRemoved ==
    \A k \in 1..Len(obs.calls) :
        LET c == obs.calls[k]
            r == RemovalRequests(c)
        IN  \A i \in 1..Len(r) :
                (r[i].isint /\ Counted(c, r[i].key) = 0
                 /\ LowerSeq(r[i].key) # LowerSeq(RSPAMD_MILTER_SPAM_HEADER)) =>
                    /\ KeepsQueued(c)
                    /\ \A j \in 1..Len(AppendedBufs(c)) :
                           ~ChangesHeader(AppendedBufs(c)[j], r[i].key)

\* "S" was counted, an ABORT reset the counts, and a verdict then asked to
\* remove "S" at position 1.
C39_Witness ==
    \E k \in 1..Len(obs.calls) :
        /\ CalledAfterAbort(k)
        /\ obs.disp[1].after.headers = (<<115>> :> 1)
        /\ obs.calls[k].before.headers = EmptyTable
        /\ Len(RemovalRequests(obs.calls[k])) = 1
        /\ RemovalRequests(obs.calls[k])[1].n = 1
        /\ Len(Appended(obs.calls[k])) = 1

====
